---- MODULE Spec2Model ----
(***************************************************************************)
(* A model of the Urbis spatial index: the page/track store, the           *)
(* allocation and block k-d trees, the page quadtree, the spatial index    *)
(* facade and the page file.                                               *)
(*                                                                         *)
(* Numbers.  Coordinates of objects are integers.  A page centroid is the  *)
(* mean of at most MAX_OBJECTS_PER_PAGE integer centroids; it is kept as   *)
(* an exact rational, scaled by CDen (a common multiple of 1..capacity).   *)
(* Quadtree rectangles are halved at most QT_MAX_DEPTH times; they are     *)
(* kept exactly, scaled by QScale = 2^QT_MAX_DEPTH.  DBL_MAX is a number   *)
(* larger than every coordinate the model computes.  malloc never fails.   *)
(***************************************************************************)
EXTENDS Integers, Sequences, FiniteSets, Bags, TLC

(* ------------------------------------------------------------------ *)
(* Bounds of the model                                                *)
(* ------------------------------------------------------------------ *)
\* objects' coordinates lie in 0..GridMax
GridMax == 2
\* a run follows one of two plans.  The growing plan only inserts and builds:
\* GrowInserts inserts.  The churning plan inserts ChurnInserts objects and
\* may remove MaxRemoves times and update MaxUpdates times.
GrowInserts == 4
ChurnInserts == 2
MaxRemoves == 2
MaxUpdates == 1
\* number of build calls in a run (each build creates blocks and tracks)
MaxBuilds == 2
\* the page capacity the model runs with (page.h sets 64)
PageCapBound == 2
\* the quadtree node capacity the model runs with (spatial_index.c passes 8)
QtCapBound == 2
\* a persisting plan inserts ChurnInserts objects, may remove and update
\* once, and may save MaxSaves times and load MaxLoads times
MaxSaves == 2
MaxLoads == 1
\* the client of a configured index inserts ConfigInserts objects and may
\* clear the index MaxClears times
ConfigInserts == 2
MaxClears == 1
\* the client of a disk manager allocates StoreAllocs pages, marks a page
\* dirty StoreWrites times and syncs StoreSyncs times
StoreAllocs == 2
StoreWrites == 2
StoreSyncs == 2
\* the client of a page cache of capacity 1..CacheCapBound allocates
\* CachePages pages and calls get CacheGets times, pin and unpin CachePins
\* times each and evict CacheEvicts times
CacheCapBound == 2
CachePages == 5
CacheGets == 4
CachePins == 1
CacheEvicts == 1
\* the client of a quadtree over (0,0)-(QuadGrid,QuadGrid) with node
\* capacity 1..QtCapBound and max_depth QuadDepth inserts QuadInserts items
\* and removes QuadRemoves
QuadGrid == 4
QuadDepth == 3
QuadInserts == 4
QuadRemoves == 2
\* the client of a k-d tree inserts KdInserts points and bulk-loads, KdLoads
\* times, up to KdLoadLen points; it partitions into blocks of at most
\* 1..KdBlockMax points
KdInserts == 2
KdLoads == 1
KdLoadLen == 3
KdBlockMax == 3

(* ------------------------------------------------------------------ *)
(* Program constants                                                  *)
(* ------------------------------------------------------------------ *)
DBL_MAX == 1000000000
MAX_OBJECTS_PER_PAGE == PageCapBound
PAGES_PER_TRACK == 16
QT_MAX_DEPTH == 20
PageTreeCapacity == QtCapBound
SI_DEFAULT_BLOCK_SIZE == 1024
SI_DEFAULT_PAGE_CAPACITY == PageCapBound
\* disk_manager.h: "URBI", and the file format version
DM_MAGIC == 1431454281
DM_VERSION == 1
DM_DEFAULT_CACHE_SIZE == 128

RECURSIVE Fact(_)
Fact(n) == IF n <= 1 THEN 1 ELSE n * Fact(n - 1)
\* common denominator of page centroids
CDen == Fact(MAX_OBJECTS_PER_PAGE)

RECURSIVE Pow2(_)
Pow2(n) == IF n = 0 THEN 1 ELSE 2 * Pow2(n - 1)
\* scale of quadtree coordinates
QScale == Pow2(QT_MAX_DEPTH)

(* ------------------------------------------------------------------ *)
(* geometry.c: points and MBRs                                        *)
(* ------------------------------------------------------------------ *)
point_create(x, y) == [x |-> x, y |-> y]

point_distance_sq(a, b) ==
    LET dx == b.x - a.x
        dy == b.y - a.y
    IN dx * dx + dy * dy

mbr_create(min_x, min_y, max_x, max_y) ==
    [min_x |-> min_x, min_y |-> min_y, max_x |-> max_x, max_y |-> max_y]

mbr_empty == mbr_create(DBL_MAX, DBL_MAX, -DBL_MAX, -DBL_MAX)

mbr_is_empty(mbr) == mbr.min_x > mbr.max_x \/ mbr.min_y > mbr.max_y

mbr_expand_point(mbr, p) ==
    [min_x |-> IF p.x < mbr.min_x THEN p.x ELSE mbr.min_x,
     min_y |-> IF p.y < mbr.min_y THEN p.y ELSE mbr.min_y,
     max_x |-> IF p.x > mbr.max_x THEN p.x ELSE mbr.max_x,
     max_y |-> IF p.y > mbr.max_y THEN p.y ELSE mbr.max_y]

mbr_expand_mbr(mbr, other) ==
    IF mbr_is_empty(other) THEN mbr
    ELSE [min_x |-> IF other.min_x < mbr.min_x THEN other.min_x ELSE mbr.min_x,
          min_y |-> IF other.min_y < mbr.min_y THEN other.min_y ELSE mbr.min_y,
          max_x |-> IF other.max_x > mbr.max_x THEN other.max_x ELSE mbr.max_x,
          max_y |-> IF other.max_y > mbr.max_y THEN other.max_y ELSE mbr.max_y]

mbr_intersects(a, b) ==
    IF mbr_is_empty(a) \/ mbr_is_empty(b) THEN FALSE
    ELSE ~(a.max_x < b.min_x \/ a.min_x > b.max_x \/
           a.max_y < b.min_y \/ a.min_y > b.max_y)

mbr_contains_point(mbr, p) ==
    IF mbr_is_empty(mbr) THEN FALSE
    ELSE p.x >= mbr.min_x /\ p.x <= mbr.max_x /\
         p.y >= mbr.min_y /\ p.y <= mbr.max_y

mbr_contains_mbr(a, b) ==
    IF mbr_is_empty(a) \/ mbr_is_empty(b) THEN FALSE
    ELSE b.min_x >= a.min_x /\ b.max_x <= a.max_x /\
         b.min_y >= a.min_y /\ b.max_y <= a.max_y

mbr_area(mbr) ==
    IF mbr_is_empty(mbr) THEN 0
    ELSE (mbr.max_x - mbr.min_x) * (mbr.max_y - mbr.min_y)

\* a point object, as spatial_object_init_point leaves it
spatial_object_init_point(id, p) ==
    [id |-> id, type |-> "point", centroid |-> p,
     mbr |-> mbr_create(p.x, p.y, p.x, p.y)]

\* a rectangular polygon with corners (x0,y0),(x1,y1), after
\* spatial_object_update_derived; x0+x1 and y0+y1 are even
spatial_object_polygon(id, x0, y0, x1, y1) ==
    [id |-> id, type |-> "polygon",
     centroid |-> point_create((x0 + x1) \div 2, (y0 + y1) \div 2),
     mbr |-> mbr_create(x0, y0, x1, y1)]

(* ------------------------------------------------------------------ *)
(* kdtree.c.  A tree is <<>> (NULL) or <<node>>; node.data is the     *)
(* payload pointer the caller stored.                                 *)
(* ------------------------------------------------------------------ *)
kdnode_create(p, object_id, data, split_dim) ==
    <<[point |-> p, object_id |-> object_id, data |-> data,
       split_dim |-> split_dim, left |-> <<>>, right |-> <<>>,
       bounds |-> mbr_create(p.x, p.y, p.x, p.y), subtree_size |-> 1]>>

kdnode_update_bounds(node) ==
    LET n == node[1]
        b0 == mbr_create(n.point.x, n.point.y, n.point.x, n.point.y)
        b1 == IF n.left # <<>> THEN mbr_expand_mbr(b0, n.left[1].bounds) ELSE b0
        b2 == IF n.right # <<>> THEN mbr_expand_mbr(b1, n.right[1].bounds) ELSE b1
        s1 == IF n.left # <<>> THEN n.left[1].subtree_size ELSE 0
        s2 == IF n.right # <<>> THEN n.right[1].subtree_size ELSE 0
    IN <<[n EXCEPT !.bounds = b2, !.subtree_size = 1 + s1 + s2]>>

kdtree_init == [root |-> <<>>, size |-> 0, bounds |-> mbr_empty]

Coord(p, dim) == IF dim = 0 THEN p.x ELSE p.y

\* insert_recursive without the update of the bounds
RECURSIVE insert_recursive_stale_bounds(_, _, _, _, _)
insert_recursive_stale_bounds(node, p, object_id, data, depth) ==
    IF node = <<>> THEN kdnode_create(p, object_id, data, depth % 2)
    ELSE LET n == node[1]
             m == IF Coord(p, n.split_dim) < Coord(n.point, n.split_dim)
                  THEN [n EXCEPT !.left = insert_recursive_stale_bounds(n.left, p, object_id,
                                                                      data, depth + 1)]
                  ELSE [n EXCEPT !.right = insert_recursive_stale_bounds(n.right, p, object_id,
                                                                       data, depth + 1)]
         IN <<[m EXCEPT !.subtree_size = n.subtree_size + 1]>>

RECURSIVE insert_recursive(_, _, _, _, _)
insert_recursive(node, p, object_id, data, depth) ==
    IF node = <<>> THEN kdnode_create(p, object_id, data, depth % 2)
    ELSE LET n == node[1]
             coord == Coord(p, n.split_dim)
             split == Coord(n.point, n.split_dim)
             m == IF coord < split
                  THEN [n EXCEPT !.left = insert_recursive(n.left, p, object_id, data, depth + 1)]
                  ELSE [n EXCEPT !.right = insert_recursive(n.right, p, object_id, data, depth + 1)]
         IN <<[m EXCEPT !.bounds = mbr_expand_point(n.bounds, p),
                        !.subtree_size = n.subtree_size + 1]>>

kdtree_insert(tree, p, object_id, data) ==
    [root |-> insert_recursive(tree.root, p, object_id, data, 0),
     size |-> tree.size + 1,
     bounds |-> mbr_expand_point(tree.bounds, p)]

\* qsort by one coordinate; elements with equal keys keep their order (the
\* order of equal keys shapes the tree only: k_nearest and partition read
\* every point of it)
RECURSIVE SortInsert(_, _, _)
SortInsert(sorted, e, dim) ==
    IF sorted = <<>> THEN <<e>>
    ELSE IF Coord(e.point, dim) < Coord(sorted[Len(sorted)].point, dim)
         THEN Append(SortInsert(SubSeq(sorted, 1, Len(sorted) - 1), e, dim),
                     sorted[Len(sorted)])
         ELSE Append(sorted, e)

RECURSIVE qsort(_, _)
qsort(points, dim) ==
    IF points = <<>> THEN <<>>
    ELSE SortInsert(qsort(SubSeq(points, 1, Len(points) - 1), dim),
                    points[Len(points)], dim)

RECURSIVE build_tree_recursive(_, _)
build_tree_recursive(points, depth) ==
    IF Len(points) = 0 THEN <<>>
    ELSE LET dim == depth % 2
             sorted == qsort(points, dim)
             median == Len(points) \div 2
             m == sorted[median + 1]
             node == kdnode_create(m.point, m.object_id, m.data, dim)[1]
             l == build_tree_recursive(SubSeq(sorted, 1, median), depth + 1)
             r == build_tree_recursive(SubSeq(sorted, median + 2, Len(sorted)), depth + 1)
         IN kdnode_update_bounds(<<[node EXCEPT !.left = l, !.right = r]>>)

RECURSIVE ExpandPoints(_, _)
ExpandPoints(b, points) ==
    IF points = <<>> THEN b
    ELSE ExpandPoints(mbr_expand_point(b, Head(points).point), Tail(points))

kdtree_bulk_load(tree, points) ==
    IF Len(points) = 0 THEN tree
    ELSE [root |-> build_tree_recursive(points, 0),
          size |-> Len(points),
          bounds |-> ExpandPoints(mbr_empty, points)]

\* nearest_recursive without the search of the other subtree
RECURSIVE nearest_recursive_near_only(_, _)
nearest_recursive_near_only(node, state) ==
    IF node = <<>> THEN state
    ELSE LET n == node[1]
             dist_sq == point_distance_sq(state.query, n.point)
             s1 == IF dist_sq < state.best_dist_sq
                   THEN [state EXCEPT !.best_dist_sq = dist_sq, !.best = n.point,
                                      !.best_id = n.object_id, !.best_data = n.data]
                   ELSE state
             diff == Coord(state.query, n.split_dim) - Coord(n.point, n.split_dim)
         IN nearest_recursive_near_only(IF diff < 0 THEN n.left ELSE n.right, s1)

RECURSIVE nearest_recursive(_, _)
nearest_recursive(node, state) ==
    IF node = <<>> THEN state
    ELSE LET n == node[1]
             dist_sq == point_distance_sq(state.query, n.point)
             s1 == IF dist_sq < state.best_dist_sq
                   THEN [state EXCEPT !.best_dist_sq = dist_sq, !.best = n.point,
                                      !.best_id = n.object_id, !.best_data = n.data]
                   ELSE state
             diff == Coord(state.query, n.split_dim) - Coord(n.point, n.split_dim)
             first == IF diff < 0 THEN n.left ELSE n.right
             second == IF diff < 0 THEN n.right ELSE n.left
             s2 == nearest_recursive(first, s1)
         IN IF diff * diff < s2.best_dist_sq
            THEN nearest_recursive(second, s2)
            ELSE s2

\* the tree is not empty
kdtree_nearest(tree, query) ==
    nearest_recursive(tree.root,
        [query |-> query, best |-> tree.root[1].point,
         best_id |-> tree.root[1].object_id, best_data |-> tree.root[1].data,
         best_dist_sq |-> DBL_MAX])

\* the result is the sequence of [point, id, data] in the order added
RECURSIVE range_query_recursive(_, _, _)
range_query_recursive(node, range, result) ==
    IF node = <<>> THEN result
    ELSE LET n == node[1] IN
         IF ~mbr_intersects(n.bounds, range) THEN result
         ELSE LET r0 == IF mbr_contains_point(range, n.point)
                        THEN Append(result, [point |-> n.point, id |-> n.object_id,
                                             data |-> n.data])
                        ELSE result
                  r1 == range_query_recursive(n.left, range, r0)
              IN range_query_recursive(n.right, range, r1)

\* the result of kdtree_range_query, in order
kdtree_range_query(tree, range) == range_query_recursive(tree.root, range, <<>>)

\* MinIdx with the comparison turned round: the index of the largest dist_sq
RECURSIVE MinIdxReversed(_, _, _)
MinIdxReversed(distances, j, min_idx) ==
    IF j > Len(distances) THEN min_idx
    ELSE MinIdxReversed(distances, j + 1,
                IF distances[j].dist_sq > distances[min_idx].dist_sq THEN j ELSE min_idx)

\* index of the first smallest dist_sq among distances[i..]
RECURSIVE MinIdx(_, _, _)
MinIdx(distances, j, min_idx) ==
    IF j > Len(distances) THEN min_idx
    ELSE MinIdx(distances, j + 1,
                IF distances[j].dist_sq < distances[min_idx].dist_sq THEN j ELSE min_idx)

\* the selection sort of kdtree_k_nearest, from position i on
RECURSIVE SelectK(_, _, _, _, _)
SelectK(distances, all, i, k, result) ==
    IF ~(i <= k /\ i <= Len(all)) THEN result
    ELSE LET min_idx == MinIdx(distances, i + 1, i)
             d == [distances EXCEPT ![i] = distances[min_idx], ![min_idx] = distances[i]]
         IN SelectK(d, all, i + 1, k, Append(result, all[d[i].idx]))

\* [err, items]; err is "KD_OK" or "KD_ERR_EMPTY"
kdtree_k_nearest(tree, query, k) ==
    IF tree.root = <<>> THEN [err |-> "KD_ERR_EMPTY", items |-> <<>>]
    ELSE IF k = 0 THEN [err |-> "KD_OK", items |-> <<>>]
    ELSE LET all == range_query_recursive(tree.root, tree.bounds, <<>>)
             distances == [i \in 1..Len(all) |->
                             [idx |-> i, dist_sq |-> point_distance_sq(query, all[i].point)]]
         IN [err |-> "KD_OK", items |-> SelectK(distances, all, 1, k, <<>>)]

RECURSIVE depth_recursive(_)
depth_recursive(node) ==
    IF node = <<>> THEN 0
    ELSE LET l == depth_recursive(node[1].left)
             r == depth_recursive(node[1].right)
         IN 1 + (IF l > r THEN l ELSE r)

RECURSIVE collect_leaf_bounds(_, _, _)
collect_leaf_bounds(node, max_size, bounds) ==
    IF node = <<>> THEN bounds
    ELSE LET n == node[1] IN
         IF n.subtree_size <= max_size \/ (n.left = <<>> /\ n.right = <<>>)
         THEN Append(bounds, n.bounds)
         ELSE collect_leaf_bounds(n.right, max_size,
                  collect_leaf_bounds(n.left, max_size, bounds))

kdtree_partition(tree, max_points_per_block) ==
    collect_leaf_bounds(tree.root, max_points_per_block, <<>>)

(* ------------------------------------------------------------------ *)
(* page.c: pages.  header.centroid is scaled by CDen.  objects holds  *)
(* the first object_count slots of the page's array.                  *)
(* ------------------------------------------------------------------ *)
ScalePoint(p, k) == point_create(p.x * k, p.y * k)

page_create(page_id, track_id) ==
    [header |-> [page_id |-> page_id, track_id |-> track_id, object_count |-> 0,
                 flags |-> {"ALLOCATED"}, extent |-> mbr_empty,
                 centroid |-> point_create(0, 0)],
     objects |-> <<>>,
     object_capacity |-> MAX_OBJECTS_PER_PAGE]

RECURSIVE ExtentOf(_, _)
ExtentOf(objects, acc) ==
    IF objects = <<>> THEN acc
    ELSE ExtentOf(Tail(objects), mbr_expand_mbr(acc, Head(objects).mbr))

RECURSIVE SumX(_)
SumX(objects) == IF objects = <<>> THEN 0 ELSE Head(objects).centroid.x + SumX(Tail(objects))

RECURSIVE SumY(_)
SumY(objects) == IF objects = <<>> THEN 0 ELSE Head(objects).centroid.y + SumY(Tail(objects))

\* page_update_derived that only grows the extent it finds
page_update_derived_grows_extent(page) ==
    [page EXCEPT
        !.header.extent = ExtentOf(page.objects, page.header.extent),
        !.header.centroid =
            IF page.header.object_count > 0
            THEN point_create((SumX(page.objects) * CDen) \div page.header.object_count,
                              (SumY(page.objects) * CDen) \div page.header.object_count)
            ELSE page.header.centroid]

page_update_derived(page) ==
    LET n == page.header.object_count
        h1 == [page.header EXCEPT !.extent = ExtentOf(page.objects, mbr_empty)]
        h2 == IF n > 0
              THEN [h1 EXCEPT !.centroid = point_create((SumX(page.objects) * CDen) \div n,
                                                        (SumY(page.objects) * CDen) \div n)]
              ELSE h1
    IN [page EXCEPT !.header = h2]

\* [err, page]
page_add_object(page, obj) ==
    IF page.header.object_count >= page.object_capacity
    THEN [err |-> "PAGE_ERR_FULL", page |-> page]
    ELSE LET n == page.header.object_count + 1
             f1 == page.header.flags \cup {"DIRTY"}
             f2 == IF n >= page.object_capacity THEN f1 \cup {"FULL"} ELSE f1
         IN [err |-> "PAGE_OK",
             page |-> [page EXCEPT !.objects = Append(page.objects, obj),
                                   !.header.object_count = n,
                                   !.header.flags = f2,
                                   !.header.extent = mbr_expand_mbr(page.header.extent, obj.mbr)]]

\* index of the first object of the page with this id, 0 if none
page_find_object(page, object_id) ==
    IF \E i \in 1..Len(page.objects) : page.objects[i].id = object_id
    THEN CHOOSE i \in 1..Len(page.objects) :
            /\ page.objects[i].id = object_id
            /\ \A j \in 1..(i - 1) : page.objects[j].id # object_id
    ELSE 0

\* page_remove_object without the decrement of object_count
page_remove_object_keeps_count(page, object_id) ==
    IF page_find_object(page, object_id) = 0
    THEN [err |-> "PAGE_ERR_NOT_FOUND", page |-> page]
    ELSE [err |-> "PAGE_OK",
          page |-> page_update_derived(
              [page EXCEPT !.objects = SubSeq(page.objects, 1, page_find_object(page, object_id) - 1) \o
                                       SubSeq(page.objects, page_find_object(page, object_id) + 1,
                                              Len(page.objects)),
                           !.header.flags = (page.header.flags \cup {"DIRTY"}) \ {"FULL"}])]

\* [err, page]
page_remove_object(page, object_id) ==
    LET i == page_find_object(page, object_id) IN
    IF i = 0 THEN [err |-> "PAGE_ERR_NOT_FOUND", page |-> page]
    ELSE LET objs == SubSeq(page.objects, 1, i - 1) \o
                     SubSeq(page.objects, i + 1, Len(page.objects))
             p1 == [page EXCEPT !.objects = objs,
                                !.header.object_count = page.header.object_count - 1,
                                !.header.flags = (page.header.flags \cup {"DIRTY"}) \ {"FULL"}]
         IN [err |-> "PAGE_OK", page |-> page_update_derived(p1)]

page_is_full(page) == page.header.object_count >= page.object_capacity

(* ------------------------------------------------------------------ *)
(* page.c: tracks and the page pool.  A Page* is the page's position  *)
(* in pool.pages, a DiskTrack* the track's position in pool.tracks.   *)
(* The track centroid is left out: the facade runs the allocator with *)
(* ALLOC_BEST_FIT, which reads only the extent.                       *)
(* ------------------------------------------------------------------ *)
track_create(track_id) ==
    [track_id |-> track_id, page_capacity |-> PAGES_PER_TRACK, pages |-> <<>>,
     extent |-> mbr_empty, is_full |-> FALSE]

RECURSIVE TrackExtent(_, _, _)
TrackExtent(pool_pages, track_pages, acc) ==
    IF track_pages = <<>> THEN acc
    ELSE TrackExtent(pool_pages, Tail(track_pages),
                     mbr_expand_mbr(acc, pool_pages[Head(track_pages)].header.extent))

track_update_derived(pool, t) ==
    [pool EXCEPT !.tracks[t].extent = TrackExtent(pool.pages, pool.tracks[t].pages, mbr_empty)]

track_has_space(track) == Len(track.pages) < track.page_capacity

\* adds page pg to track t; a full track is left as it is (PAGE_ERR_FULL)
track_add_page(pool, t, pg) ==
    IF Len(pool.tracks[t].pages) >= pool.tracks[t].page_capacity THEN pool
    ELSE track_update_derived(
            [pool EXCEPT !.tracks[t].pages = Append(@, pg),
                         !.tracks[t].is_full =
                             IF Len(pool.tracks[t].pages) + 1 >= pool.tracks[t].page_capacity
                             THEN TRUE ELSE @,
                         !.pages[pg].header.track_id = pool.tracks[t].track_id],
            t)

page_pool_init ==
    [pages |-> <<>>, tracks |-> <<>>, next_page_id |-> 1, next_track_id |-> 1]

\* position of the first track with this id, 0 if none
page_pool_get_track(pool, track_id) ==
    IF \E t \in 1..Len(pool.tracks) : pool.tracks[t].track_id = track_id
    THEN CHOOSE t \in 1..Len(pool.tracks) :
            /\ pool.tracks[t].track_id = track_id
            /\ \A u \in 1..(t - 1) : pool.tracks[u].track_id # track_id
    ELSE 0

\* the new page is the last of the pool
page_pool_alloc_link(pool, track_id, t) ==
    IF track_id > 0 /\ t > 0 THEN track_add_page(pool, t, Len(pool.pages)) ELSE pool

page_pool_alloc(pool, track_id) ==
    page_pool_alloc_link(
        [pool EXCEPT !.pages = Append(@, page_create(pool.next_page_id, track_id)),
                     !.next_page_id = @ + 1],
        track_id, page_pool_get_track(pool, track_id))

\* the new track is the last of the pool
page_pool_create_track(pool) ==
    [pool EXCEPT !.tracks = Append(@, track_create(pool.next_track_id)),
                 !.next_track_id = @ + 1]

RECURSIVE SumCounts(_)
SumCounts(pages) ==
    IF pages = <<>> THEN 0 ELSE Head(pages).header.object_count + SumCounts(Tail(pages))

\* total_objects of page_pool_stats
page_pool_stats(pool) == SumCounts(pool.pages)

\* the positions of the pages whose extent intersects region, in pool order
RECURSIVE page_pool_query_region(_, _, _)
page_pool_query_region(pool, region, i) ==
    IF i > Len(pool.pages) THEN <<>>
    ELSE IF mbr_intersects(pool.pages[i].header.extent, region)
         THEN <<i>> \o page_pool_query_region(pool, region, i + 1)
         ELSE page_pool_query_region(pool, region, i + 1)

(* ------------------------------------------------------------------ *)
(* page.c: the page cache.  lru is the list of PageRefs from head to  *)
(* tail; a PageRef pointer is the position of the ref in lru, 0 is    *)
(* NULL.  hash_table holds <<bucket, pointer>> for the buckets that   *)
(* are not NULL.  A ref has one next pointer, which both the hash     *)
(* chain and the list use: the list's assignment comes last, so the   *)
(* chain of a bucket runs from the bucket's ref down the list to the  *)
(* tail.  last_access is left out: nothing reads it.  pc, pending and *)
(* todo are the position of the caller: "evict" is inside the loop of *)
(* page_cache_evict, with todo entries left to evict, called by a get *)
(* of page pending or, pending = 0, by the client.                    *)
(* ------------------------------------------------------------------ *)
page_hash(page_id, hash_size) == page_id % hash_size

page_cache_init(capacity) ==
    [capacity |-> IF capacity > 0 THEN capacity ELSE 64,
     hash_size |-> 2 * (IF capacity > 0 THEN capacity ELSE 64),
     count |-> 0, lru |-> <<>>, hash_table |-> {},
     pc |-> "idle", pending |-> 0, todo |-> 0]

\* position in the pool of the first page with the id, 0 if none
page_pool_get(pool, page_id) ==
    IF \E i \in 1..Len(pool.pages) : pool.pages[i].header.page_id = page_id
    THEN CHOOSE i \in 1..Len(pool.pages) :
            /\ pool.pages[i].header.page_id = page_id
            /\ \A j \in 1..(i - 1) : pool.pages[j].header.page_id # page_id
    ELSE 0

\* the pointer in a bucket
BucketHead(cache, b) ==
    IF \E e \in cache.hash_table : e[1] = b
    THEN (CHOOSE e \in cache.hash_table : e[1] = b)[2]
    ELSE 0

\* the ref the lookup loop of page_cache_get stops at: the first with the
\* id on the chain of the id's bucket, 0 if the chain has none
CacheLookup(cache, page_id) ==
    IF BucketHead(cache, page_hash(page_id, cache.hash_size)) = 0 THEN 0
    ELSE IF \E q \in BucketHead(cache, page_hash(page_id, cache.hash_size))..Len(cache.lru) :
                cache.lru[q].page_id = page_id
    THEN CHOOSE q \in BucketHead(cache, page_hash(page_id, cache.hash_size))..Len(cache.lru) :
            /\ cache.lru[q].page_id = page_id
            /\ \A r \in BucketHead(cache, page_hash(page_id, cache.hash_size))..(q - 1) :
                  cache.lru[r].page_id # page_id
    ELSE 0

\* the cache after the ref at q is moved to the head and counted
page_cache_hit(cache, q) ==
    [cache EXCEPT
        !.lru = <<[cache.lru[q] EXCEPT !.access_count = @ + 1]>>
                \o SubSeq(cache.lru, 1, q - 1) \o SubSeq(cache.lru, q + 1, Len(cache.lru)),
        !.hash_table = { <<e[1], IF e[2] = q THEN 1 ELSE IF e[2] < q THEN e[2] + 1 ELSE e[2]>> :
                           e \in cache.hash_table }]

\* the cache after a new ref is put in its bucket and at the head
page_cache_add(cache, page_id) ==
    [cache EXCEPT
        !.lru = <<[page_id |-> page_id, access_count |-> 1]>> \o cache.lru,
        !.hash_table = { <<e[1], e[2] + 1>> :
                           e \in { d \in cache.hash_table :
                                     d[1] # page_hash(page_id, cache.hash_size) } }
                       \cup { <<page_hash(page_id, cache.hash_size), 1>> },
        !.count = @ + 1,
        !.pc = "idle", !.pending = 0, !.todo = 0]

\* page_cache_get without the eviction of a miss at capacity
page_cache_get_no_evict(cache, pool, page_id) ==
    IF CacheLookup(cache, page_id) # 0 THEN page_cache_hit(cache, CacheLookup(cache, page_id))
    ELSE IF page_pool_get(pool, page_id) = 0 THEN cache
    ELSE page_cache_add(cache, page_id)

\* the cache when page_cache_get is called: a hit, a miss of a page the
\* pool does not hold, a miss with room, or a miss that enters the loop of
\* page_cache_evict(cache, 1)
page_cache_get(cache, pool, page_id) ==
    IF CacheLookup(cache, page_id) # 0 THEN page_cache_hit(cache, CacheLookup(cache, page_id))
    ELSE IF page_pool_get(pool, page_id) = 0 THEN cache
    ELSE IF cache.count >= cache.capacity
         THEN [cache EXCEPT !.pc = "evict", !.pending = page_id, !.todo = 1]
         ELSE page_cache_add(cache, page_id)

\* the pool after page_cache_pin and page_cache_unpin
page_cache_pin(pool, page_id) ==
    IF page_pool_get(pool, page_id) = 0 THEN pool
    ELSE [pool EXCEPT !.pages[page_pool_get(pool, page_id)].header.flags = @ \cup {"PINNED"}]

page_cache_unpin(pool, page_id) ==
    IF page_pool_get(pool, page_id) = 0 THEN pool
    ELSE [pool EXCEPT !.pages[page_pool_get(pool, page_id)].header.flags = @ \ {"PINNED"}]

\* the victim of an iteration of the loop of page_cache_evict is the tail;
\* its page is pinned
tail_is_pinned(cache, pool) ==
    /\ page_pool_get(pool, cache.lru[Len(cache.lru)].page_id) # 0
    /\ "PINNED" \in pool.pages[page_pool_get(pool, cache.lru[Len(cache.lru)].page_id)].header.flags

\* the cache after an iteration that evicts the tail: the bucket of the
\* victim is set to victim->next, which is NULL, when it points at the
\* victim; the walk down the chain cannot reach an unlinked victim
page_cache_evict_tail(cache) ==
    [cache EXCEPT
        !.lru = SubSeq(cache.lru, 1, Len(cache.lru) - 1),
        !.hash_table = cache.hash_table \ { <<page_hash(cache.lru[Len(cache.lru)].page_id,
                                                       cache.hash_size), Len(cache.lru)>> },
        !.count = @ - 1,
        !.todo = @ - 1]

\* the loop of page_cache_evict goes on
evict_loop_continues(cache) == cache.todo > 0 /\ cache.lru # <<>>

\* the cache when page_cache_evict returns, to the client or into the get
\* that called it
page_cache_evict_return(cache) ==
    IF cache.pending # 0 THEN page_cache_add(cache, cache.pending)
    ELSE [cache EXCEPT !.pc = "idle", !.todo = 0]

(* ------------------------------------------------------------------ *)
(* disk_manager.c: the allocator                                      *)
(* ------------------------------------------------------------------ *)
disk_manager_init ==
    [pool |-> page_pool_init,
     cache |-> page_cache_init(DM_DEFAULT_CACHE_SIZE),
     allocation_tree |-> kdtree_init,
     header |-> [magic |-> 0, version |-> 0,
                 page_count |-> 0, track_count |-> 0, object_count |-> 0,
                 bounds |-> mbr_create(0, 0, 0, 0)],
     is_open |-> FALSE, is_dirty |-> FALSE]

disk_manager_create_track(dm) ==
    [dm EXCEPT !.pool = page_pool_create_track(dm.pool),
               !.is_dirty = TRUE,
               !.header.track_count = @ + 1]

\* ALLOC_BEST_FIT: position of the track with space whose extent grows least, 0 if none
RECURSIVE BestFit(_, _, _, _, _)
BestFit(tracks, centroid, i, best, best_expansion) ==
    IF i > Len(tracks) THEN best
    ELSE IF ~track_has_space(tracks[i])
         THEN BestFit(tracks, centroid, i + 1, best, best_expansion)
         ELSE LET expanded == mbr_expand_point(tracks[i].extent, centroid)
                  expansion == mbr_area(expanded) - mbr_area(tracks[i].extent)
              IN IF expansion < best_expansion
                 THEN BestFit(tracks, centroid, i + 1, i, expansion)
                 ELSE BestFit(tracks, centroid, i + 1, best, best_expansion)

disk_manager_find_best_track(dm, centroid) ==
    BestFit(dm.pool.tracks, centroid, 1, 0, DBL_MAX)

update_allocation_tree(dm, pg) ==
    [dm EXCEPT !.allocation_tree =
        kdtree_insert(dm.allocation_tree, dm.pool.pages[pg].header.centroid,
                      dm.pool.pages[pg].header.page_id, pg)]

\* the new page is the last of the pool
disk_manager_alloc_finish(dm, centroid, pg) ==
    [update_allocation_tree(dm, pg) EXCEPT
        !.header.bounds = mbr_expand_point(@, centroid),
        !.is_dirty = TRUE,
        !.header.page_count = @ + 1]

\* pool holds the new page as its last; the page is added to track t once more
disk_manager_alloc_on_track(dm, pool, t, centroid) ==
    disk_manager_alloc_finish(
        [dm EXCEPT !.pool = track_add_page(
            [pool EXCEPT !.pages[Len(pool.pages)].header.centroid = ScalePoint(centroid, CDen)],
            t, Len(pool.pages))],
        centroid, Len(pool.pages))

disk_manager_alloc_in(dm, t, centroid) ==
    disk_manager_alloc_on_track(dm, page_pool_alloc(dm.pool, dm.pool.tracks[t].track_id),
                                t, centroid)

disk_manager_alloc_with(dm, centroid, best) ==
    IF best = 0 \/ ~track_has_space(dm.pool.tracks[best])
    THEN disk_manager_alloc_in(disk_manager_create_track(dm), Len(dm.pool.tracks) + 1, centroid)
    ELSE disk_manager_alloc_in(dm, best, centroid)

disk_manager_alloc_page(dm, centroid) ==
    disk_manager_alloc_with(dm, centroid, disk_manager_find_best_track(dm, centroid))

RECURSIVE RebuildFrom(_, _, _)
RebuildFrom(pages, i, tree) ==
    IF i > Len(pages) THEN tree
    ELSE IF pages[i].header.object_count > 0
         THEN RebuildFrom(pages, i + 1,
                  kdtree_insert(tree, pages[i].header.centroid, pages[i].header.page_id, i))
         ELSE RebuildFrom(pages, i + 1, tree)

disk_manager_rebuild_allocation_tree(dm) ==
    [dm EXCEPT !.allocation_tree = RebuildFrom(dm.pool.pages, 1, kdtree_init)]

(* ------------------------------------------------------------------ *)
(* quadtree.c.  Rectangles in the tree are scaled by QScale.  A node  *)
(* is a record; children is <<>> for a leaf, else the four children   *)
(* in the order NW, NE, SW, SE.                                       *)
(* ------------------------------------------------------------------ *)
ScaleMBR(m, k) ==
    IF mbr_is_empty(m) THEN m
    ELSE mbr_create(m.min_x * k, m.min_y * k, m.max_x * k, m.max_y * k)

\* EPSILON (1e-9) is below the resolution 1/QScale of the stored
\* rectangles: on them the test is that no strict gap separates a and b
mbr_adjacent_or_intersects(a, b) ==
    ~(a.max_x < b.min_x \/ a.min_x > b.max_x \/
      a.max_y < b.min_y \/ a.min_y > b.max_y)

qtnode_create(bounds, capacity, depth) ==
    [bounds |-> bounds, depth |-> depth, is_leaf |-> TRUE, items |-> <<>>,
     item_capacity |-> capacity, children |-> <<>>]

\* position of the first child that contains the item and has room, 0 if none
SplitTarget(children, item) ==
    IF \E q \in 1..4 : mbr_contains_mbr(children[q].bounds, item.bounds)
                        /\ Len(children[q].items) < children[q].item_capacity
    THEN CHOOSE q \in 1..4 :
            /\ mbr_contains_mbr(children[q].bounds, item.bounds)
            /\ Len(children[q].items) < children[q].item_capacity
            /\ \A r \in 1..(q - 1) :
                  ~(mbr_contains_mbr(children[r].bounds, item.bounds)
                    /\ Len(children[r].items) < children[r].item_capacity)
    ELSE 0

\* the redistribution loop of qtnode_split over items[i..]
RECURSIVE Redistribute(_, _, _)
Redistribute(children, items, i) ==
    IF i > Len(items) THEN children
    ELSE LET q == SplitTarget(children, items[i])
         IN IF q > 0
            THEN Redistribute([children EXCEPT ![q].items = Append(@, items[i])],
                              items, i + 1)
            ELSE Redistribute(children, items, i + 1)

qtnode_split(node, capacity) ==
    LET b == node.bounds
        mid_x == (b.min_x + b.max_x) \div 2
        mid_y == (b.min_y + b.max_y) \div 2
        ch == << qtnode_create(mbr_create(b.min_x, mid_y, mid_x, b.max_y), capacity, node.depth + 1),
                 qtnode_create(mbr_create(mid_x, mid_y, b.max_x, b.max_y), capacity, node.depth + 1),
                 qtnode_create(mbr_create(b.min_x, b.min_y, mid_x, mid_y), capacity, node.depth + 1),
                 qtnode_create(mbr_create(mid_x, b.min_y, b.max_x, mid_y), capacity, node.depth + 1) >>
    IN [node EXCEPT !.is_leaf = FALSE,
                    !.children = Redistribute(ch, node.items, 1),
                    !.items = <<>>]

\* position of the first child whose bounds contain the item, 0 if none
InsertTarget(children, item) ==
    IF \E q \in 1..4 : mbr_contains_mbr(children[q].bounds, item.bounds)
    THEN CHOOSE q \in 1..4 :
            /\ mbr_contains_mbr(children[q].bounds, item.bounds)
            /\ \A r \in 1..(q - 1) : ~mbr_contains_mbr(children[r].bounds, item.bounds)
    ELSE 0

QtAppend(node, item) ==
    [node EXCEPT !.items = Append(@, item),
                 !.item_capacity = IF Len(node.items) >= @ THEN 2 * @ ELSE @]

\* [err, node]
RECURSIVE qtnode_insert(_, _, _, _)
qtnode_insert(node, item, node_capacity, max_depth) ==
    IF ~mbr_intersects(node.bounds, item.bounds)
    THEN [err |-> "QT_ERR_BOUNDS", node |-> node]
    ELSE IF node.is_leaf
    THEN IF Len(node.items) >= node_capacity /\ node.depth < max_depth
         THEN qtnode_insert(qtnode_split(node, node_capacity), item, node_capacity, max_depth)
         ELSE [err |-> "QT_OK", node |-> QtAppend(node, item)]
    ELSE LET q == InsertTarget(node.children, item)
         IN IF q > 0
            THEN LET r == qtnode_insert(node.children[q], item, node_capacity, max_depth)
                 IN [err |-> r.err, node |-> [node EXCEPT !.children[q] = r.node]]
            ELSE [err |-> "QT_OK", node |-> QtAppend(node, item)]

RECURSIVE ItemsIn(_, _, _)
ItemsIn(items, range, i) ==
    IF i > Len(items) THEN <<>>
    ELSE IF mbr_intersects(items[i].bounds, range)
         THEN <<items[i]>> \o ItemsIn(items, range, i + 1)
         ELSE ItemsIn(items, range, i + 1)

\* the items added to the result, in order
RECURSIVE qtnode_query_range(_, _)
qtnode_query_range(node, range) ==
    IF ~mbr_intersects(node.bounds, range) THEN <<>>
    ELSE ItemsIn(node.items, range, 1) \o
         (IF node.is_leaf THEN <<>>
          ELSE qtnode_query_range(node.children[1], range) \o
               qtnode_query_range(node.children[2], range) \o
               qtnode_query_range(node.children[3], range) \o
               qtnode_query_range(node.children[4], range))

RECURSIVE qtnode_collect_all(_)
qtnode_collect_all(node) ==
    node.items \o
    (IF node.is_leaf THEN <<>>
     ELSE qtnode_collect_all(node.children[1]) \o qtnode_collect_all(node.children[2]) \o
          qtnode_collect_all(node.children[3]) \o qtnode_collect_all(node.children[4]))

\* a QuadTree* is <<>> (NULL) or <<tree>>
quadtree_create(bounds, node_capacity, max_depth) ==
    <<[node_capacity |-> node_capacity, max_depth |-> max_depth, total_items |-> 0,
       root |-> qtnode_create(bounds, node_capacity, 0)]>>

quadtree_clear(qt) == quadtree_create(qt.root.bounds, qt.node_capacity, qt.max_depth)[1]

\* the tree after the call (an item outside the root bounds is refused)
quadtree_inserted(qt, r) ==
    IF r.err = "QT_OK"
    THEN [qt EXCEPT !.root = r.node, !.total_items = @ + 1]
    ELSE qt

quadtree_insert_with_centroid(qt, id, bounds, data) ==
    quadtree_inserted(qt, qtnode_insert(qt.root, [id |-> id, bounds |-> bounds, data |-> data],
                                        qt.node_capacity, qt.max_depth))

\* [found, node]: the first item with the id, in the node's items and then
\* in its children in order, is taken out
RECURSIVE qtnode_remove(_, _)
RECURSIVE RemoveInChildren(_, _, _)
\* r is what the removal in child q gave
RemoveInChild(node, id, q, r) ==
    IF r.found THEN [found |-> TRUE, node |-> [node EXCEPT !.children[q] = r.node]]
    ELSE RemoveInChildren(node, id, q + 1)

RemoveInChildren(node, id, q) ==
    IF q > 4 THEN [found |-> FALSE, node |-> node]
    ELSE RemoveInChild(node, id, q, qtnode_remove(node.children[q], id))

\* the items without the one at position i
QtItemsWithout(items, i) == SubSeq(items, 1, i - 1) \o SubSeq(items, i + 1, Len(items))

qtnode_remove(node, id) ==
    IF \E i \in 1..Len(node.items) : node.items[i].id = id
    THEN [found |-> TRUE,
          node |-> [node EXCEPT !.items =
                      QtItemsWithout(node.items,
                                     CHOOSE i \in 1..Len(node.items) :
                                        /\ node.items[i].id = id
                                        /\ \A j \in 1..(i - 1) : node.items[j].id # id)]]
    ELSE IF node.is_leaf THEN [found |-> FALSE, node |-> node]
    ELSE RemoveInChildren(node, id, 1)

\* [err, qt]; r is what the removal in the root gave
quadtree_removed(qt, r) ==
    IF r.found
    THEN [err |-> "QT_OK", qt |-> [qt EXCEPT !.root = r.node, !.total_items = @ - 1]]
    ELSE [err |-> "QT_ERR_NOT_FOUND", qt |-> qt]

quadtree_remove(qt, id) == quadtree_removed(qt, qtnode_remove(qt.root, id))

\* the items of the result, in order
quadtree_get_all(qt) == qtnode_collect_all(qt.root)

\* the items of the result, in order
quadtree_query_range(qt, range) == qtnode_query_range(qt.root, range)

RECURSIVE AdjacentFilter(_, _, _)
AdjacentFilter(items, region, i) ==
    IF i > Len(items) THEN <<>>
    ELSE IF mbr_adjacent_or_intersects(items[i].bounds, region)
         THEN <<items[i]>> \o AdjacentFilter(items, region, i + 1)
         ELSE AdjacentFilter(items, region, i + 1)

\* region is scaled by QScale; dx, dy are 1% of its sides, at least
\* 1e-6 (one unit of 1/QScale, to the resolution of the model)
quadtree_find_adjacent_to_region(qt, region) ==
    LET dx0 == (region.max_x - region.min_x) \div 100
        dy0 == (region.max_y - region.min_y) \div 100
        dx == IF dx0 < 1 THEN 1 ELSE dx0
        dy == IF dy0 < 1 THEN 1 ELSE dy0
        expanded == mbr_create(region.min_x - dx, region.min_y - dy,
                               region.max_x + dx, region.max_y + dy)
    IN AdjacentFilter(qtnode_query_range(qt.root, expanded), region, 1)

(* ------------------------------------------------------------------ *)
(* disk_manager.c: the page file.  A file is <<>> (it does not exist) *)
(* or <<[header, slots]>>; slots[i] is the buffer written for page id *)
(* i, or <<>> where nothing was written (the bytes read as zero).     *)
(* ------------------------------------------------------------------ *)
\* page_serialize writing the objects last to first
page_serialize_reversed(page) ==
    <<[header |-> page.header,
       objects |-> [i \in 1..page.header.object_count |->
                      [id |-> page.objects[page.header.object_count + 1 - i].id,
                       type |-> page.objects[page.header.object_count + 1 - i].type,
                       centroid |-> page.objects[page.header.object_count + 1 - i].centroid,
                       mbr |-> page.objects[page.header.object_count + 1 - i].mbr]]]>>

\* the buffer holds the header and, of each object, id, type, centroid and MBR
page_serialize(page) ==
    <<[header |-> page.header,
       objects |-> [i \in 1..page.header.object_count |->
                      [id |-> page.objects[i].id, type |-> page.objects[i].type,
                       centroid |-> page.objects[i].centroid,
                       mbr |-> page.objects[i].mbr]]]>>

\* a buffer of zero bytes, read as a header
ZeroHeader ==
    [page_id |-> 0, track_id |-> 0, object_count |-> 0, flags |-> {},
     extent |-> mbr_create(0, 0, 0, 0), centroid |-> point_create(0, 0)]

\* [err, page]; the header is overwritten before it is checked
page_deserialize(page, buffer) ==
    IF buffer = <<>>
    THEN [err |-> "PAGE_OK", page |-> [page EXCEPT !.header = ZeroHeader, !.objects = <<>>]]
    ELSE IF buffer[1].header.object_count > MAX_OBJECTS_PER_PAGE
    THEN [err |-> "PAGE_ERR_CORRUPT", page |-> [page EXCEPT !.header = buffer[1].header]]
    ELSE [err |-> "PAGE_OK",
          page |-> [page EXCEPT !.header = buffer[1].header, !.objects = buffer[1].objects]]

\* the page after the read; a read past the end of the file yields zero bytes
read_page_from_disk(file, page) ==
    LET slots == file[1].slots
        id == page.header.page_id
        buffer == IF id >= 1 /\ id <= Len(slots) THEN slots[id] ELSE <<>>
    IN page_deserialize(page, buffer).page

\* the file after the write of the page at the offset of its id
write_page_to_disk(file, page) ==
    LET slots == file[1].slots
        id == page.header.page_id
        grown == IF id > Len(slots) THEN slots \o [i \in 1..(id - Len(slots)) |-> <<>>]
                 ELSE slots
    IN <<[file[1] EXCEPT !.slots = [grown EXCEPT ![id] = page_serialize(page)]]>>

write_header(dm, file) == <<[file[1] EXCEPT !.header = dm.header]>>

\* the file after the writes of the dirty pages from position i on
RECURSIVE WriteDirty(_, _, _)
WriteDirty(pages, file, i) ==
    IF i > Len(pages) THEN file
    ELSE IF "DIRTY" \in pages[i].header.flags
         THEN WriteDirty(pages, write_page_to_disk(file, pages[i]), i + 1)
         ELSE WriteDirty(pages, file, i + 1)

\* [err, dm, file]
disk_manager_sync_done(dm, file) ==
    [err |-> "DM_OK", dm |-> dm, file |-> write_header(dm, file)]

disk_manager_sync(dm, file) ==
    IF ~dm.is_open THEN [err |-> "DM_ERR_NOT_OPEN", dm |-> dm, file |-> file]
    ELSE disk_manager_sync_done(
            [dm EXCEPT !.pool.pages = [i \in 1..Len(dm.pool.pages) |->
                                         [dm.pool.pages[i] EXCEPT !.header.flags = @ \ {"DIRTY"}]],
                       !.header.page_count = Len(dm.pool.pages),
                       !.header.track_count = Len(dm.pool.tracks),
                       !.header.object_count = page_pool_stats(dm.pool),
                       !.is_dirty = FALSE],
            WriteDirty(dm.pool.pages, file, 1))

\* WriteDirty where the writes of the pages at the positions in failing fail
RECURSIVE WriteDirtyIo(_, _, _, _)
WriteDirtyIo(pages, file, i, failing) ==
    IF i > Len(pages) THEN file
    ELSE IF "DIRTY" \in pages[i].header.flags /\ i \notin failing
         THEN WriteDirtyIo(pages, write_page_to_disk(file, pages[i]), i + 1, failing)
         ELSE WriteDirtyIo(pages, file, i + 1, failing)

\* disk_manager_sync on a file whose writes may fail: the results of
\* write_page_to_disk and of write_header are not looked at
disk_manager_sync_io(dm, file, failing, header_fails) ==
    IF ~dm.is_open THEN [err |-> "DM_ERR_NOT_OPEN", dm |-> dm, file |-> file]
    ELSE [err |-> "DM_OK",
          dm |-> disk_manager_sync(dm, file).dm,
          file |-> IF header_fails THEN WriteDirtyIo(dm.pool.pages, file, 1, failing)
                   ELSE write_header(disk_manager_sync(dm, file).dm,
                                     WriteDirtyIo(dm.pool.pages, file, 1, failing))]

\* [dm, file]
disk_manager_close_done(r) ==
    [dm |-> [r.dm EXCEPT !.is_open = FALSE], file |-> r.file]

disk_manager_close(dm, file) ==
    IF ~dm.is_open THEN [dm |-> dm, file |-> file]
    ELSE disk_manager_close_done(disk_manager_sync(dm, file))

\* [dm, file]: fopen with "w+b" empties the file
disk_manager_create_header(dm) ==
    [dm |-> dm, file |-> <<[header |-> dm.header, slots |-> <<>>]>>]

disk_manager_create_closed(c) ==
    disk_manager_create_header(
        [c.dm EXCEPT !.header = [magic |-> DM_MAGIC, version |-> DM_VERSION,
                                 page_count |-> 0, track_count |-> 0,
                                 object_count |-> 0, bounds |-> mbr_empty],
                     !.is_open = TRUE, !.is_dirty = FALSE])

disk_manager_create(dm, file) ==
    disk_manager_create_closed(disk_manager_close(dm, file))

\* the disk manager after the pages i..header.page_count are loaded
RECURSIVE LoadPages(_, _, _)
LoadedPage(dm, pool, page) ==
    IF page.header.object_count > 0
    THEN update_allocation_tree([dm EXCEPT !.pool = [pool EXCEPT !.pages[Len(pool.pages)] = page]],
                                Len(pool.pages))
    ELSE [dm EXCEPT !.pool = [pool EXCEPT !.pages[Len(pool.pages)] = page]]

LoadPage(dm, file, pool, i) ==
    LoadedPage(dm, pool,
        read_page_from_disk(file, [pool.pages[Len(pool.pages)] EXCEPT !.header.page_id = i]))

LoadPages(dm, file, i) ==
    IF i > dm.header.page_count THEN dm
    ELSE LoadPages(LoadPage(dm, file, page_pool_alloc(dm.pool, 0), i), file, i + 1)

\* read_header that accepts every header
read_header_unchecked(dm, file) ==
    [err |-> "DM_OK", dm |-> [dm EXCEPT !.header = file[1].header]]

\* [err, dm]: the header is read into dm before it is validated
read_header(dm, file) ==
    [err |-> IF file[1].header.magic # DM_MAGIC THEN "DM_ERR_CORRUPT"
             ELSE IF file[1].header.version > DM_VERSION THEN "DM_ERR_VERSION"
             ELSE "DM_OK",
     dm |-> [dm EXCEPT !.header = file[1].header]]

\* [err, dm, file]
disk_manager_open_read(h, file) ==
    IF h.err # "DM_OK" THEN [err |-> h.err, dm |-> h.dm, file |-> file]
    ELSE [err |-> "DM_OK",
          dm |-> [LoadPages(h.dm, file, 1) EXCEPT !.is_open = TRUE, !.is_dirty = FALSE],
          file |-> file]

disk_manager_open_closed(c) ==
    IF c.file = <<>> THEN [err |-> "DM_ERR_IO", dm |-> c.dm, file |-> c.file]
    ELSE disk_manager_open_read(read_header(c.dm, c.file), c.file)

disk_manager_open(dm, file) ==
    disk_manager_open_closed(disk_manager_close(dm, file))

\* the disk manager after disk_manager_write_page on the page at position pg
\* (sync_on_write is false)
disk_manager_write_page(dm, pg) ==
    [dm EXCEPT !.pool.pages[pg].header.flags = @ \cup {"DIRTY"}, !.is_dirty = TRUE]

\* the pool after page_cache_flush: the flags are cleared, nothing is written
page_cache_flush(pool) ==
    [pool EXCEPT !.pages = [i \in 1..Len(pool.pages) |->
                              [pool.pages[i] EXCEPT !.header.flags = @ \ {"DIRTY"}]]]

(* ------------------------------------------------------------------ *)
(* spatial_index.c.  idx is the SpatialIndex structure.  A block's    *)
(* centroid is left out: nothing reads it.                            *)
(* ------------------------------------------------------------------ *)
spatial_index_default_config ==
    [block_size |-> SI_DEFAULT_BLOCK_SIZE, page_capacity |-> SI_DEFAULT_PAGE_CAPACITY,
     build_quadtree |-> TRUE]

spatial_index_init(config) ==
    [config |-> config,
     disk |-> disk_manager_init,
     block_tree |-> kdtree_init,
     page_tree |-> <<>>,
     blocks |-> <<>>,
     next_object_id |-> 1,
     next_block_id |-> 1,
     bounds |-> mbr_empty,
     is_built |-> FALSE]

\* position of the first page that holds the object, 0 if none
find_page_for_object(idx, object_id) ==
    LET pages == idx.disk.pool.pages IN
    IF \E i \in 1..Len(pages) : page_find_object(pages[i], object_id) > 0
    THEN CHOOSE i \in 1..Len(pages) :
            /\ page_find_object(pages[i], object_id) > 0
            /\ \A j \in 1..(i - 1) : page_find_object(pages[j], object_id) = 0
    ELSE 0

\* [idx, page]: the index after the call and the position of the page
get_page_allocated(idx, d) ==
    [idx |-> [idx EXCEPT !.disk = d], page |-> Len(d.pool.pages)]

get_page_near(idx, obj, near) ==
    IF near > 0 /\ ~page_is_full(idx.disk.pool.pages[near])
    THEN [idx |-> idx, page |-> near]
    ELSE get_page_allocated(idx, disk_manager_alloc_page(idx.disk, obj.centroid))

\* get_page_for_insert with the page of the root of the allocation tree in
\* the place of the nearest page
get_page_for_insert_root(idx, obj) ==
    get_page_near(idx, obj,
        IF idx.disk.allocation_tree.size > 0
        THEN idx.disk.allocation_tree.root[1].data
        ELSE 0)

get_page_for_insert(idx, obj) ==
    get_page_near(idx, obj,
        IF idx.disk.allocation_tree.size > 0
        THEN kdtree_nearest(idx.disk.allocation_tree,
                            ScalePoint(obj.centroid, CDen)).best_data
        ELSE 0)

create_block_on(idx, bounds, d) ==
    [idx EXCEPT !.blocks = Append(@, [block_id |-> idx.next_block_id,
                                      bounds |-> bounds,
                                      track |-> Len(d.pool.tracks),
                                      object_count |-> 0]),
                !.next_block_id = @ + 1,
                !.disk = d]

create_block(idx, bounds) ==
    create_block_on(idx, bounds, disk_manager_create_track(idx.disk))

RECURSIVE InsertPages(_, _, _)
InsertPages(qt, pages, i) ==
    IF i > Len(pages) THEN qt
    ELSE IF pages[i].header.object_count > 0
         THEN InsertPages(quadtree_insert_with_centroid(qt, pages[i].header.page_id,
                              ScaleMBR(pages[i].header.extent, QScale), i),
                          pages, i + 1)
         ELSE InsertPages(qt, pages, i + 1)

build_page_quadtree(idx) ==
    IF ~idx.config.build_quadtree THEN idx
    ELSE IF Len(idx.disk.pool.pages) = 0 THEN [idx EXCEPT !.page_tree = <<>>]
    ELSE [idx EXCEPT !.page_tree =
            <<InsertPages(quadtree_create(ScaleMBR(idx.bounds, QScale),
                                          PageTreeCapacity, QT_MAX_DEPTH)[1],
                          idx.disk.pool.pages, 1)>>]

\* [err, idx, id]; obj.id = 0 asks for a fresh id
spatial_index_insert_finish(idx, pg, page, obj) ==
    [err |-> "SI_OK",
     idx |-> [idx EXCEPT !.disk = disk_manager_rebuild_allocation_tree(
                              [idx.disk EXCEPT !.pool.pages[pg] = page_update_derived(page)]),
                         !.bounds = mbr_expand_mbr(@, obj.mbr),
                         !.is_built = FALSE],
     id |-> obj.id]

spatial_index_insert_readded(idx, d, r, obj) ==
    IF r.err # "PAGE_OK"
    THEN [err |-> "SI_ERR_FULL", idx |-> [idx EXCEPT !.disk = d], id |-> obj.id]
    ELSE spatial_index_insert_finish([idx EXCEPT !.disk = d], Len(d.pool.pages), r.page, obj)

spatial_index_insert_retry(idx, d, obj) ==
    spatial_index_insert_readded(idx, d, page_add_object(d.pool.pages[Len(d.pool.pages)], obj), obj)

spatial_index_insert_added(idx, pg, r, obj) ==
    IF r.err = "PAGE_OK"
    THEN spatial_index_insert_finish(idx, pg, r.page, obj)
    ELSE spatial_index_insert_retry(idx, disk_manager_alloc_page(idx.disk, obj.centroid), obj)

spatial_index_insert_page(g, obj) ==
    spatial_index_insert_added(g.idx, g.page,
                               page_add_object(g.idx.disk.pool.pages[g.page], obj), obj)

spatial_index_insert_object(idx, obj) ==
    spatial_index_insert_page(get_page_for_insert(idx, obj), obj)

spatial_index_insert(idx, obj_in) ==
    spatial_index_insert_object(
        IF obj_in.id = 0 THEN [idx EXCEPT !.next_object_id = @ + 1] ELSE idx,
        IF obj_in.id = 0 THEN [obj_in EXCEPT !.id = idx.next_object_id] ELSE obj_in)

\* spatial_index_remove_done without the reset of is_built
spatial_index_remove_done_keeps_built(idx, pg, r) ==
    IF r.err # "PAGE_OK" THEN [err |-> "SI_ERR_NOT_FOUND", idx |-> idx]
    ELSE [err |-> "SI_OK",
          idx |-> [idx EXCEPT !.disk = disk_manager_rebuild_allocation_tree(
                                   [idx.disk EXCEPT !.pool.pages[pg] = page_update_derived(r.page)])]]

\* [err, idx]
spatial_index_remove_done(idx, pg, r) ==
    IF r.err # "PAGE_OK" THEN [err |-> "SI_ERR_NOT_FOUND", idx |-> idx]
    ELSE [err |-> "SI_OK",
          idx |-> [idx EXCEPT !.disk = disk_manager_rebuild_allocation_tree(
                                   [idx.disk EXCEPT !.pool.pages[pg] = page_update_derived(r.page)]),
                              !.is_built = FALSE]]

spatial_index_remove_from(idx, object_id, pg) ==
    IF pg = 0 THEN [err |-> "SI_ERR_NOT_FOUND", idx |-> idx]
    ELSE spatial_index_remove_done(idx, pg,
             page_remove_object(idx.disk.pool.pages[pg], object_id))

spatial_index_remove(idx, object_id) ==
    spatial_index_remove_from(idx, object_id, find_page_for_object(idx, object_id))

\* [err, idx]
spatial_index_update_inserted(s) == [err |-> s.err, idx |-> s.idx]

spatial_index_update_removed(r, object_id, new_obj) ==
    IF r.err # "SI_OK" THEN r
    ELSE spatial_index_update_inserted(
             spatial_index_insert(r.idx, [new_obj EXCEPT !.id = object_id]))

spatial_index_update(idx, object_id, new_obj) ==
    spatial_index_update_removed(spatial_index_remove(idx, object_id), object_id, new_obj)

\* the KDPointData array of spatial_index_build; data is <<page, slot>>
RECURSIVE CollectPoints(_, _, _)
CollectPoints(pages, i, j) ==
    IF i > Len(pages) THEN <<>>
    ELSE IF j > pages[i].header.object_count THEN CollectPoints(pages, i + 1, 1)
    ELSE <<[point |-> pages[i].objects[j].centroid,
            object_id |-> pages[i].objects[j].id,
            data |-> <<i, j>>]>> \o CollectPoints(pages, i, j + 1)

RECURSIVE CreateBlocks(_, _, _)
CreateBlocks(idx, block_bounds, i) ==
    IF i > Len(block_bounds) THEN idx
    ELSE CreateBlocks(create_block(idx, block_bounds[i]), block_bounds, i + 1)

spatial_index_build_tree(idx, tree) ==
    [build_page_quadtree(
        CreateBlocks([idx EXCEPT !.block_tree = tree, !.blocks = <<>>],
                     kdtree_partition(tree, idx.config.block_size), 1))
     EXCEPT !.is_built = TRUE]

spatial_index_build(idx) ==
    IF page_pool_stats(idx.disk.pool) = 0 THEN [idx EXCEPT !.is_built = TRUE]
    ELSE spatial_index_build_tree(idx,
             kdtree_bulk_load(kdtree_init, CollectPoints(idx.disk.pool.pages, 1, 1)))

\* ObjectsIn without the test of the object's MBR: every object of a candidate page
RECURSIVE ObjectsInUnfiltered(_, _, _)
ObjectsInUnfiltered(page, range, j) ==
    IF j > page.header.object_count THEN <<>>
    ELSE <<page.objects[j]>> \o ObjectsInUnfiltered(page, range, j + 1)

\* the objects of page pg from slot j on whose MBR intersects range
RECURSIVE ObjectsIn(_, _, _)
ObjectsIn(page, range, j) ==
    IF j > page.header.object_count THEN <<>>
    ELSE IF mbr_intersects(page.objects[j].mbr, range)
         THEN <<page.objects[j]>> \o ObjectsIn(page, range, j + 1)
         ELSE ObjectsIn(page, range, j + 1)

RECURSIVE CollectObjects(_, _, _, _)
CollectObjects(pool, pages, range, i) ==
    IF i > Len(pages) THEN <<>>
    ELSE ObjectsIn(pool.pages[pages[i]], range, 1) \o CollectObjects(pool, pages, range, i + 1)

\* the objects of the result, in order
spatial_index_query_range(idx, range) ==
    CollectObjects(idx.disk.pool, page_pool_query_region(idx.disk.pool, range, 1), range, 1)

spatial_index_query_point(idx, p) ==
    spatial_index_query_range(idx, mbr_create(p.x, p.y, p.x, p.y))

\* [err, objects]: the SpatialObject pointers <<page, slot>> of the result
spatial_index_knn_result(r) ==
    IF r.err # "KD_OK" THEN [err |-> "SI_ERR_NOT_FOUND", objects |-> <<>>]
    ELSE [err |-> "SI_OK", objects |-> [i \in 1..Len(r.items) |-> r.items[i].data]]

spatial_index_query_knn(idx, p, k) ==
    IF k = 0 THEN [err |-> "SI_OK", objects |-> <<>>]
    ELSE spatial_index_knn_result(kdtree_k_nearest(idx.block_tree, p, k))

\* [err, idx, pages, track_ids]; pages are positions in the pool
spatial_index_adjacent_result(idx, items) ==
    [err |-> "SI_OK", idx |-> idx,
     pages |-> [i \in 1..Len(items) |-> items[i].data],
     track_ids |-> [i \in 1..Len(items) |->
                      idx.disk.pool.pages[items[i].data].header.track_id]]

spatial_index_adjacent_in(idx, region) ==
    IF idx.page_tree = <<>>
    THEN [err |-> "SI_ERR_NOT_BUILT", idx |-> idx, pages |-> <<>>, track_ids |-> <<>>]
    ELSE spatial_index_adjacent_result(idx,
             quadtree_find_adjacent_to_region(idx.page_tree[1], ScaleMBR(region, QScale)))

spatial_index_find_adjacent_pages(idx, region) ==
    spatial_index_adjacent_in(
        IF idx.page_tree = <<>> THEN build_page_quadtree(idx) ELSE idx, region)

\* [err, idx, file]
spatial_index_save_synced(idx, r) ==
    [err |-> IF r.err = "DM_OK" THEN "SI_OK" ELSE "SI_ERR_IO",
     idx |-> [idx EXCEPT !.disk = r.dm], file |-> r.file]

spatial_index_save_created(idx, c) ==
    spatial_index_save_synced(idx, disk_manager_sync(c.dm, c.file))

spatial_index_save(idx, file) ==
    spatial_index_save_created(idx, disk_manager_create(idx.disk, file))

\* [err, idx, file]
spatial_index_load_opened(idx, r) ==
    IF r.err # "DM_OK"
    THEN [err |-> "SI_ERR_IO", idx |-> [idx EXCEPT !.disk = r.dm], file |-> r.file]
    ELSE [err |-> "SI_OK",
          idx |-> spatial_index_build([idx EXCEPT !.disk = r.dm,
                                                  !.bounds = r.dm.header.bounds]),
          file |-> r.file]

spatial_index_load(idx, file) ==
    spatial_index_load_opened(idx, disk_manager_open(idx.disk, file))

\* the nodes of a k-d tree after the pages their data point to are freed: a
\* pointer to a freed page is written as minus the position the page had
RECURSIVE FreedData(_)
FreedData(node) ==
    IF node = <<>> THEN <<>>
    ELSE <<[node[1] EXCEPT !.data = -node[1].data,
                           !.left = FreedData(node[1].left),
                           !.right = FreedData(node[1].right)]>>

\* the pages and tracks are freed and the allocation tree is left as it is
spatial_index_clear(idx) ==
    [idx EXCEPT !.block_tree = kdtree_init,
                !.page_tree = IF @ = <<>> THEN <<>> ELSE <<quadtree_clear(@[1])>>,
                !.disk.pool.pages = <<>>,
                !.disk.pool.tracks = <<>>,
                !.disk.allocation_tree.root = FreedData(@),
                !.blocks = <<>>,
                !.bounds = mbr_empty,
                !.is_built = FALSE]

\* get_page_for_insert finds a freed page nearest and reads its header
nearest_is_freed(idx, obj) ==
    /\ idx.disk.allocation_tree.size > 0
    /\ kdtree_nearest(idx.disk.allocation_tree, ScalePoint(obj.centroid, CDen)).best_data < 0

\* the insert when the freed page reads as not full: the object is written
\* to the freed memory and to no page of the pool
spatial_index_insert_freed(idx, obj) ==
    [err |-> "SI_OK",
     idx |-> [idx EXCEPT !.disk = disk_manager_rebuild_allocation_tree(idx.disk),
                         !.bounds = mbr_expand_mbr(@, obj.mbr),
                         !.is_built = FALSE],
     id |-> obj.id]

\* what spatial_index_insert can do: reading a freed page is undefined, the
\* page reads as full (a new page is allocated) or as not full
spatial_index_insert_outcomes(idx, obj_in) ==
    IF nearest_is_freed(idx, obj_in)
    THEN { spatial_index_insert(idx, obj_in),
           spatial_index_insert_freed(
               IF obj_in.id = 0 THEN [idx EXCEPT !.next_object_id = @ + 1] ELSE idx,
               IF obj_in.id = 0 THEN [obj_in EXCEPT !.id = idx.next_object_id] ELSE obj_in) }
    ELSE { spatial_index_insert(idx, obj_in) }

(* ------------------------------------------------------------------ *)
(* urbis.c: the public API                                            *)
(* ------------------------------------------------------------------ *)
\* CountSeeks without the test last_track != 0: the first page costs a seek too
RECURSIVE CountSeeksFromFirst(_, _, _)
CountSeeksFromFirst(track_ids, i, last_track) ==
    IF i > Len(track_ids) THEN 0
    ELSE (IF track_ids[i] # last_track THEN 1 ELSE 0)
         + CountSeeksFromFirst(track_ids, i + 1, track_ids[i])

\* the loop that counts track transitions, from entry i on
RECURSIVE CountSeeks(_, _, _)
CountSeeks(track_ids, i, last_track) ==
    IF i > Len(track_ids) THEN 0
    ELSE (IF track_ids[i] # last_track /\ last_track # 0 THEN 1 ELSE 0)
         + CountSeeks(track_ids, i + 1, track_ids[i])

\* [ok, idx, page_ids, track_ids, count, estimated_seeks]; ok = FALSE is the NULL list
urbis_page_list(r) ==
    IF r.err # "SI_OK"
    THEN [ok |-> FALSE, idx |-> r.idx, page_ids |-> <<>>, track_ids |-> <<>>,
          count |-> 0, estimated_seeks |-> 0]
    ELSE [ok |-> TRUE, idx |-> r.idx,
          page_ids |-> [i \in 1..Len(r.pages) |->
                          r.idx.disk.pool.pages[r.pages[i]].header.page_id],
          track_ids |-> r.track_ids,
          count |-> Len(r.pages),
          estimated_seeks |-> CountSeeks(r.track_ids, 1, 0)]

urbis_find_adjacent_pages(idx, region) ==
    urbis_page_list(spatial_index_find_adjacent_pages(idx, region))

\* [ok, idx, file]; ok = FALSE is the NULL handle
urbis_loaded(r) == [ok |-> r.err = "SI_OK", idx |-> r.idx, file |-> r.file]

urbis_load(file) ==
    urbis_loaded(spatial_index_load(spatial_index_init(spatial_index_default_config), file))

urbis_count(idx) == page_pool_stats(idx.disk.pool)

urbis_default_config ==
    [block_size |-> SI_DEFAULT_BLOCK_SIZE, page_capacity |-> SI_DEFAULT_PAGE_CAPACITY,
     enable_quadtree |-> TRUE]

\* urbis_create with a configuration
urbis_create(config) ==
    spatial_index_init([block_size |-> config.block_size,
                        page_capacity |-> config.page_capacity,
                        build_quadtree |-> config.enable_quadtree])

urbis_bounds(idx) == idx.bounds

(* ------------------------------------------------------------------ *)
(* The inputs of the operations                                       *)
(* ------------------------------------------------------------------ *)
Coords == 0..GridMax

\* the objects a caller inserts: points on the grid positions with an even
\* coordinate sum, and one rectangle; id 0 asks the index for an id
InputObjects ==
    { spatial_object_init_point(0, point_create(x, y)) :
        <<x, y>> \in { q \in Coords \X Coords : (q[1] + q[2]) % 2 = 0 } }
    \cup { spatial_object_polygon(0, 0, 0, 2, 2) }

ObjectIds == 1..GrowInserts

\* query rectangles and query points
Regions ==
    { mbr_create(x0, y0, x1, y1) :
        <<x0, y0, x1, y1>> \in { q \in Coords \X Coords \X Coords \X Coords :
                                  q[1] <= q[3] /\ q[2] <= q[4] } }

\* the regions a client passes to find_adjacent_pages
CallRegions == { mbr_create(0, 0, GridMax, GridMax), mbr_create(0, 0, 0, 0) }

QueryPoints == { point_create(x, y) : <<x, y>> \in Coords \X Coords }

KValues == 1..(GrowInserts + 1)

\* what a client may still do: the calls left of each kind
Plans ==
    { [ins |-> GrowInserts, rem |-> 0, upd |-> 0, build |-> MaxBuilds,
       save |-> 0, load |-> 0, clear |-> 0],
      [ins |-> ChurnInserts, rem |-> MaxRemoves, upd |-> MaxUpdates, build |-> MaxBuilds,
       save |-> 0, load |-> 0, clear |-> 0] }

PersistPlans ==
    { [ins |-> ChurnInserts, rem |-> 1, upd |-> 1, build |-> 1,
       save |-> MaxSaves, load |-> MaxLoads, clear |-> 0] }

\* the configurations a client creates an index with
Configs ==
    { [block_size |-> SI_DEFAULT_BLOCK_SIZE, page_capacity |-> c, enable_quadtree |-> q] :
        c \in 1..MAX_OBJECTS_PER_PAGE, q \in BOOLEAN }

ConfigPlans ==
    { [ins |-> ConfigInserts, rem |-> 1, upd |-> 1, build |-> 1,
       save |-> 0, load |-> 0, clear |-> MaxClears] }

(* ------------------------------------------------------------------ *)
(* The state: the index, and what a client has done to it             *)
(* ------------------------------------------------------------------ *)
VARIABLES
    idx,        \* the SpatialIndex behind the UrbisIndex handle
    live,       \* the bag of objects inserted and not removed since
    n_ins,      \* successful inserts so far
    n_rem,      \* successful removes so far
    fresh,      \* a build has completed since the last successful mutation
    budget,     \* the calls the client has left
    file,       \* the page file at the path the client saves to and loads from
    saved       \* the bag of objects the index held when it was last saved

vars == <<idx, live, n_ins, n_rem, fresh, budget, file, saved>>

Init ==
    /\ idx = spatial_index_init(spatial_index_default_config)
    /\ live = EmptyBag
    /\ n_ins = 0
    /\ n_rem = 0
    /\ fresh = FALSE
    /\ budget \in Plans
    /\ file = <<>>
    /\ saved = EmptyBag

\* the object a remove of this id takes out: the first with the id, in page
\* order and in slot order
RemovedObject(id) ==
    idx.disk.pool.pages[find_page_for_object(idx, id)].objects[
        page_find_object(idx.disk.pool.pages[find_page_for_object(idx, id)], id)]

\* urbis_insert with an object whose id is 0
Insert(obj) ==
    /\ budget.ins > 0
    /\ \E r \in spatial_index_insert_outcomes(idx, obj) :
       /\ idx' = r.idx
       /\ IF r.err = "SI_OK"
          THEN /\ live' = live (+) SetToBag({[obj EXCEPT !.id = r.id]})
               /\ n_ins' = n_ins + 1
               /\ fresh' = FALSE
          ELSE UNCHANGED <<live, n_ins, fresh>>
    /\ budget' = [budget EXCEPT !.ins = @ - 1]
    /\ UNCHANGED <<n_rem, file, saved>>

\* urbis_remove
Remove(id) ==
    /\ budget.rem > 0
    /\ \E r \in {spatial_index_remove(idx, id)} :
       /\ idx' = r.idx
       /\ IF r.err = "SI_OK"
          THEN /\ live' = live (-) SetToBag({RemovedObject(id)})
               /\ n_rem' = n_rem + 1
               /\ fresh' = FALSE
          ELSE UNCHANGED <<live, n_rem, fresh>>
    /\ budget' = [budget EXCEPT !.rem = @ - 1]
    /\ UNCHANGED <<n_ins, file, saved>>

\* spatial_index_update
Update(id, obj) ==
    /\ budget.upd > 0
    /\ \E r \in {spatial_index_update(idx, id, obj)} :
       /\ idx' = r.idx
       /\ IF r.err = "SI_OK"
          THEN /\ live' = (live (-) SetToBag({RemovedObject(id)})) (+) SetToBag({[obj EXCEPT !.id = id]})
               /\ fresh' = FALSE
          ELSE UNCHANGED <<live, fresh>>
    /\ budget' = [budget EXCEPT !.upd = @ - 1]
    /\ UNCHANGED <<n_ins, n_rem, file, saved>>

\* urbis_build
Build ==
    /\ budget.build > 0
    /\ idx' = spatial_index_build(idx)
    /\ fresh' = TRUE
    /\ budget' = [budget EXCEPT !.build = @ - 1]
    /\ UNCHANGED <<live, n_ins, n_rem, file, saved>>

\* urbis_find_adjacent_pages: the call builds the page quadtree when there is none
FindAdjacentPages(region) ==
    /\ idx' = urbis_find_adjacent_pages(idx, region).idx
    /\ UNCHANGED <<live, n_ins, n_rem, fresh, budget, file, saved>>

\* spatial_index_clear
Clear ==
    /\ budget.clear > 0
    /\ idx' = spatial_index_clear(idx)
    /\ live' = EmptyBag
    /\ fresh' = FALSE
    /\ budget' = [budget EXCEPT !.clear = @ - 1]
    /\ UNCHANGED <<n_ins, n_rem, file, saved>>

\* urbis_save
Save ==
    /\ budget.save > 0
    /\ \E r \in {spatial_index_save(idx, file)} :
       /\ idx' = r.idx
       /\ file' = r.file
       /\ saved' = IF r.err = "SI_OK" THEN live ELSE saved
    /\ budget' = [budget EXCEPT !.save = @ - 1]
    /\ UNCHANGED <<live, n_ins, n_rem, fresh>>

\* urbis_load: the client goes on with the index the call returns; when the
\* call returns NULL it keeps the index it has
Load ==
    /\ budget.load > 0
    /\ \E r \in {urbis_load(file)} :
       IF r.ok
       THEN /\ idx' = r.idx
            /\ file' = r.file
            /\ live' = saved
            /\ fresh' = TRUE
       ELSE UNCHANGED <<idx, file, live, fresh>>
    /\ budget' = [budget EXCEPT !.load = @ - 1]
    /\ UNCHANGED <<n_ins, n_rem, saved>>

Next ==
    \/ \E obj \in InputObjects : Insert(obj)
    \/ \E id \in ObjectIds : Remove(id)
    \/ \E id \in ObjectIds, obj \in InputObjects : Update(id, obj)
    \/ Build
    \/ \E region \in CallRegions : FindAdjacentPages(region)

Spec == Init /\ [][Next]_vars

\* the same client with a page file
InitPersist ==
    /\ idx = spatial_index_init(spatial_index_default_config)
    /\ live = EmptyBag
    /\ n_ins = 0
    /\ n_rem = 0
    /\ fresh = FALSE
    /\ budget \in PersistPlans
    /\ file = <<>>
    /\ saved = EmptyBag

NextPersist ==
    \/ \E obj \in InputObjects : Insert(obj)
    \/ \E id \in ObjectIds : Remove(id)
    \/ \E id \in ObjectIds, obj \in InputObjects : Update(id, obj)
    \/ Build
    \/ Save
    \/ Load

SpecPersist == InitPersist /\ [][NextPersist]_vars

\* a client that creates the index with a configuration of its own and may
\* clear it
InitConfig ==
    /\ idx \in { urbis_create(config) : config \in Configs }
    /\ live = EmptyBag
    /\ n_ins = 0
    /\ n_rem = 0
    /\ fresh = FALSE
    /\ budget \in ConfigPlans
    /\ file = <<>>
    /\ saved = EmptyBag

NextConfig ==
    \/ \E obj \in InputObjects : Insert(obj)
    \/ \E id \in ObjectIds : Remove(id)
    \/ \E id \in ObjectIds, obj \in InputObjects : Update(id, obj)
    \/ Build
    \/ Clear
    \/ \E region \in CallRegions : FindAdjacentPages(region)

SpecConfig == InitConfig /\ [][NextConfig]_vars

\* a client of the disk manager itself: it allocates pages, marks them
\* dirty, flushes the cache, creates, syncs and opens the data file; the file
\* may be replaced under it by one with another header, and writes may fail
StorePlans ==
    { [alloc |-> StoreAllocs, write |-> StoreWrites, flush |-> 1, create |-> 1,
       sync |-> StoreSyncs, close |-> 1, tamper |-> 1, open |-> 1] }

\* the magic and version a foreign file may carry
ForeignHeaders ==
    { <<DM_MAGIC + 1, DM_VERSION>>, <<DM_MAGIC, DM_VERSION + 1>>, <<DM_MAGIC + 1, DM_VERSION + 1>> }

\* the writes of one sync that fail: none, or the write of one page
FailingWrites == { {} } \cup { {pg} : pg \in 1..(2 * StoreAllocs) }

InitStore ==
    /\ idx = spatial_index_init(spatial_index_default_config)
    /\ live = EmptyBag
    /\ n_ins = 0
    /\ n_rem = 0
    /\ fresh = FALSE
    /\ budget \in StorePlans
    /\ file = <<>>
    /\ saved = EmptyBag

\* disk_manager_alloc_page
StoreAlloc(centroid) ==
    /\ budget.alloc > 0
    /\ idx' = [idx EXCEPT !.disk = disk_manager_alloc_page(@, centroid)]
    /\ budget' = [budget EXCEPT !.alloc = @ - 1]
    /\ UNCHANGED <<live, n_ins, n_rem, fresh, file, saved>>

\* disk_manager_write_page on the page at position pg of the pool
StoreWrite(pg) ==
    /\ budget.write > 0
    /\ pg \in 1..Len(idx.disk.pool.pages)
    /\ idx' = [idx EXCEPT !.disk = disk_manager_write_page(@, pg)]
    /\ budget' = [budget EXCEPT !.write = @ - 1]
    /\ UNCHANGED <<live, n_ins, n_rem, fresh, file, saved>>

\* page_cache_flush on the cache of the disk manager
StoreFlush ==
    /\ budget.flush > 0
    /\ idx' = [idx EXCEPT !.disk.pool = page_cache_flush(@)]
    /\ budget' = [budget EXCEPT !.flush = @ - 1]
    /\ UNCHANGED <<live, n_ins, n_rem, fresh, file, saved>>

\* disk_manager_create
StoreCreate ==
    /\ budget.create > 0
    /\ \E r \in {disk_manager_create(idx.disk, file)} :
       /\ idx' = [idx EXCEPT !.disk = r.dm]
       /\ file' = r.file
    /\ budget' = [budget EXCEPT !.create = @ - 1]
    /\ UNCHANGED <<live, n_ins, n_rem, fresh, saved>>

\* disk_manager_sync; the writes of the pages in failing fail, and so may
\* the write of the header
StoreSync(failing, header_fails) ==
    /\ budget.sync > 0
    /\ failing \subseteq 1..Len(idx.disk.pool.pages)
    /\ \E r \in {disk_manager_sync_io(idx.disk, file, failing, header_fails)} :
       /\ idx' = [idx EXCEPT !.disk = r.dm]
       /\ file' = r.file
    /\ budget' = [budget EXCEPT !.sync = @ - 1]
    /\ UNCHANGED <<live, n_ins, n_rem, fresh, saved>>

\* disk_manager_close
StoreClose ==
    /\ budget.close > 0
    /\ \E r \in {disk_manager_close(idx.disk, file)} :
       /\ idx' = [idx EXCEPT !.disk = r.dm]
       /\ file' = r.file
    /\ budget' = [budget EXCEPT !.close = @ - 1]
    /\ UNCHANGED <<live, n_ins, n_rem, fresh, saved>>

\* the file at the path is replaced by one with another magic or version
StoreTamper(h) ==
    /\ budget.tamper > 0
    /\ file # <<>>
    /\ file' = <<[file[1] EXCEPT !.header.magic = h[1], !.header.version = h[2]]>>
    /\ budget' = [budget EXCEPT !.tamper = @ - 1]
    /\ UNCHANGED <<idx, live, n_ins, n_rem, fresh, saved>>

\* disk_manager_open
StoreOpen ==
    /\ budget.open > 0
    /\ \E r \in {disk_manager_open(idx.disk, file)} :
       /\ idx' = [idx EXCEPT !.disk = r.dm]
       /\ file' = r.file
    /\ budget' = [budget EXCEPT !.open = @ - 1]
    /\ UNCHANGED <<live, n_ins, n_rem, fresh, saved>>

NextStore ==
    \/ \E centroid \in {point_create(0, 0), point_create(GridMax, GridMax)} : StoreAlloc(centroid)
    \/ \E pg \in 1..(2 * StoreAllocs) : StoreWrite(pg)
    \/ StoreFlush
    \/ StoreCreate
    \/ \E failing \in FailingWrites, header_fails \in BOOLEAN :
          StoreSync(failing, header_fails)
    \/ StoreClose
    \/ \E h \in ForeignHeaders : StoreTamper(h)
    \/ StoreOpen

SpecStore == InitStore /\ [][NextStore]_vars

\* the same client on a file whose page records may be damaged.  A page
\* whose header carries more objects than its array holds cannot be written
\* back without reading past the array: the client goes no further once the
\* pool holds such a page
PoolDamaged ==
    \E i \in 1..Len(idx.disk.pool.pages) :
        idx.disk.pool.pages[i].header.object_count > idx.disk.pool.pages[i].object_capacity

\* the record of the page with id pg in the file is damaged: its header now
\* carries an object_count above MAX_OBJECTS_PER_PAGE
StoreCorrupt(pg) ==
    /\ budget.tamper > 0
    /\ file # <<>>
    /\ pg \in 1..Len(file[1].slots)
    /\ file[1].slots[pg] # <<>>
    /\ file' = <<[file[1] EXCEPT
                    !.slots[pg][1].header.object_count = MAX_OBJECTS_PER_PAGE + 1]>>
    /\ budget' = [budget EXCEPT !.tamper = @ - 1]
    /\ UNCHANGED <<idx, live, n_ins, n_rem, fresh, saved>>

NextDamaged ==
    \/ \E centroid \in {point_create(0, 0), point_create(GridMax, GridMax)} :
          ~PoolDamaged /\ StoreAlloc(centroid)
    \/ \E pg \in 1..(2 * StoreAllocs) : ~PoolDamaged /\ StoreWrite(pg)
    \/ ~PoolDamaged /\ StoreFlush
    \/ ~PoolDamaged /\ StoreCreate
    \/ \E failing \in FailingWrites, header_fails \in BOOLEAN :
          ~PoolDamaged /\ StoreSync(failing, header_fails)
    \/ ~PoolDamaged /\ StoreClose
    \/ \E h \in ForeignHeaders : ~PoolDamaged /\ StoreTamper(h)
    \/ \E pg \in 1..(2 * StoreAllocs) : StoreCorrupt(pg)
    \/ ~PoolDamaged /\ StoreOpen

SpecDamaged == InitStore /\ [][NextDamaged]_vars

\* a client of a page pool and its page cache: it allocates pages and gets,
\* pins, unpins and evicts them through the cache
CachePlans ==
    { [alloc |-> CachePages, get |-> CacheGets, pin |-> CachePins, unpin |-> CachePins,
       evict |-> CacheEvicts] }

InitCache ==
    /\ \E capacity \in 0..CacheCapBound :
          idx = [spatial_index_init(spatial_index_default_config)
                    EXCEPT !.disk.cache = page_cache_init(capacity)]
    /\ live = EmptyBag
    /\ n_ins = 0
    /\ n_rem = 0
    /\ fresh = FALSE
    /\ budget \in CachePlans
    /\ file = <<>>
    /\ saved = EmptyBag

\* page_pool_alloc(pool, 0)
CacheAlloc ==
    /\ idx.disk.cache.pc = "idle"
    /\ budget.alloc > 0
    /\ idx' = [idx EXCEPT !.disk.pool = page_pool_alloc(@, 0)]
    /\ budget' = [budget EXCEPT !.alloc = @ - 1]
    /\ UNCHANGED <<live, n_ins, n_rem, fresh, file, saved>>

\* page_cache_get, up to its return or to the loop of the eviction it calls
CacheGet(page_id) ==
    /\ idx.disk.cache.pc = "idle"
    /\ budget.get > 0
    /\ idx' = [idx EXCEPT !.disk.cache = page_cache_get(@, idx.disk.pool, page_id)]
    /\ budget' = [budget EXCEPT !.get = @ - 1]
    /\ UNCHANGED <<live, n_ins, n_rem, fresh, file, saved>>

\* page_cache_pin
CachePin(page_id) ==
    /\ idx.disk.cache.pc = "idle"
    /\ budget.pin > 0
    /\ idx' = [idx EXCEPT !.disk.pool = page_cache_pin(@, page_id)]
    /\ budget' = [budget EXCEPT !.pin = @ - 1]
    /\ UNCHANGED <<live, n_ins, n_rem, fresh, file, saved>>

\* page_cache_unpin
CacheUnpin(page_id) ==
    /\ idx.disk.cache.pc = "idle"
    /\ budget.unpin > 0
    /\ idx' = [idx EXCEPT !.disk.pool = page_cache_unpin(@, page_id)]
    /\ budget' = [budget EXCEPT !.unpin = @ - 1]
    /\ UNCHANGED <<live, n_ins, n_rem, fresh, file, saved>>

\* the client calls page_cache_evict(cache, count)
CacheEvict(count) ==
    /\ idx.disk.cache.pc = "idle"
    /\ budget.evict > 0
    /\ idx' = [idx EXCEPT !.disk.cache = [@ EXCEPT !.pc = "evict", !.pending = 0, !.todo = count]]
    /\ budget' = [budget EXCEPT !.evict = @ - 1]
    /\ UNCHANGED <<live, n_ins, n_rem, fresh, file, saved>>

\* an iteration of the loop of page_cache_evict that leaves the state
\* changed: the tail is not pinned and is evicted.  An iteration on a
\* pinned tail changes the local victim only, and the next iteration sets
\* it to the tail again
EvictStep ==
    /\ idx.disk.cache.pc = "evict"
    /\ evict_loop_continues(idx.disk.cache)
    /\ ~tail_is_pinned(idx.disk.cache, idx.disk.pool)
    /\ idx' = [idx EXCEPT !.disk.cache = page_cache_evict_tail(@)]
    /\ UNCHANGED <<live, n_ins, n_rem, fresh, budget, file, saved>>

\* the loop of page_cache_evict ends and the call returns
EvictReturn ==
    /\ idx.disk.cache.pc = "evict"
    /\ ~evict_loop_continues(idx.disk.cache)
    /\ idx' = [idx EXCEPT !.disk.cache = page_cache_evict_return(@)]
    /\ UNCHANGED <<live, n_ins, n_rem, fresh, budget, file, saved>>

NextCache ==
    \/ CacheAlloc
    \/ \E page_id \in 1..(CachePages + 1) : CacheGet(page_id)
    \/ \E page_id \in 1..(CachePages + 1) : CachePin(page_id)
    \/ \E page_id \in 1..(CachePages + 1) : CacheUnpin(page_id)
    \/ \E count \in 1..CacheCapBound : CacheEvict(count)
    \/ EvictStep
    \/ EvictReturn

SpecCache == InitCache /\ [][NextCache]_vars

\* a client of a quadtree of its own, held in the place of the page tree: it
\* inserts items under ids 1, 2, ... and removes items by id
QuadPlans == { [insert |-> QuadInserts, remove |-> QuadRemoves] }

\* the bounds of the items: one in each of two quadrants of the root, one
\* on the border of two, one over the centre, the centre point, and one
\* that only partly overlaps the root
QuadBounds ==
    { mbr_create(0, 0, 1, 1), mbr_create(3, 3, QuadGrid, QuadGrid),
      mbr_create(1, 0, 3, 1), mbr_create(1, 1, 3, 3),
      mbr_create(QuadGrid \div 2, QuadGrid \div 2, QuadGrid \div 2, QuadGrid \div 2),
      mbr_create(3, 3, QuadGrid + 1, QuadGrid + 1) }

\* the ranges of the queries: the root, a quadrant, the centre point, and a
\* point outside the root
QuadRanges ==
    { mbr_create(0, 0, QuadGrid, QuadGrid), mbr_create(0, 0, QuadGrid \div 2, QuadGrid \div 2),
      mbr_create(QuadGrid \div 2, QuadGrid \div 2, QuadGrid \div 2, QuadGrid \div 2),
      mbr_create(QuadGrid + 1, QuadGrid + 1, QuadGrid + 1, QuadGrid + 1) }

InitQuad ==
    /\ \E node_capacity \in 1..QtCapBound :
          idx = [spatial_index_init(spatial_index_default_config)
                    EXCEPT !.page_tree =
                       quadtree_create(ScaleMBR(mbr_create(0, 0, QuadGrid, QuadGrid), QScale),
                                       node_capacity, QuadDepth)]
    /\ live = EmptyBag
    /\ n_ins = 0
    /\ n_rem = 0
    /\ fresh = FALSE
    /\ budget \in QuadPlans
    /\ file = <<>>
    /\ saved = EmptyBag

\* quadtree_insert of an item with the next id; live holds the id and the
\* bounds of the items inserted and not removed
QuadInsert(bounds) ==
    /\ budget.insert > 0
    /\ \E r \in {quadtree_insert_with_centroid(idx.page_tree[1], n_ins + 1,
                                                ScaleMBR(bounds, QScale), 0)} :
       /\ idx' = [idx EXCEPT !.page_tree = <<r>>]
       /\ live' = IF r.total_items > idx.page_tree[1].total_items
                  THEN live (+) SetToBag({[id |-> n_ins + 1,
                                            bounds |-> ScaleMBR(bounds, QScale)]})
                  ELSE live
    /\ n_ins' = n_ins + 1
    /\ budget' = [budget EXCEPT !.insert = @ - 1]
    /\ UNCHANGED <<n_rem, fresh, file, saved>>

\* quadtree_remove
QuadRemove(id) ==
    /\ budget.remove > 0
    /\ \E r \in {quadtree_remove(idx.page_tree[1], id)} :
       /\ idx' = [idx EXCEPT !.page_tree = <<r.qt>>]
       /\ live' = IF r.err = "QT_OK"
                  THEN live (-) SetToBag({ x \in BagToSet(live) : x.id = id })
                  ELSE live
       /\ n_rem' = IF r.err = "QT_OK" THEN n_rem + 1 ELSE n_rem
    /\ budget' = [budget EXCEPT !.remove = @ - 1]
    /\ UNCHANGED <<n_ins, fresh, file, saved>>

NextQuad ==
    \/ \E bounds \in QuadBounds : QuadInsert(bounds)
    \/ \E id \in 1..QuadInserts : QuadRemove(id)

SpecQuad == InitQuad /\ [][NextQuad]_vars

\* a client of a k-d tree of its own, held in the place of the block tree: it
\* inserts points and bulk-loads arrays of points; the point with id i
\* carries the payload -i
KdPlans == { [insert |-> KdInserts, load |-> KdLoads] }

KdPoints == { point_create(x, y) : x \in 0..GridMax, y \in 0..GridMax }

\* the arrays a bulk load is given
KdArrays == UNION { [1..n -> KdPoints] : n \in 0..KdLoadLen }

\* the KDPointData array of the points, with ids from first on
KdPointData(points, first) ==
    [i \in 1..Len(points) |->
        [point |-> points[i], object_id |-> first + i - 1, data |-> -(first + i - 1)]]

InitKd ==
    /\ idx = spatial_index_init(spatial_index_default_config)
    /\ live = EmptyBag
    /\ n_ins = 0
    /\ n_rem = 0
    /\ fresh = FALSE
    /\ budget \in KdPlans
    /\ file = <<>>
    /\ saved = EmptyBag

\* kdtree_insert of a point with the next id; live holds the points stored
KdInsert(p) ==
    /\ budget.insert > 0
    /\ idx' = [idx EXCEPT !.block_tree = kdtree_insert(@, p, n_ins + 1, -(n_ins + 1))]
    /\ live' = live (+) SetToBag({[point |-> p, object_id |-> n_ins + 1, data |-> -(n_ins + 1)]})
    /\ n_ins' = n_ins + 1
    /\ budget' = [budget EXCEPT !.insert = @ - 1]
    /\ UNCHANGED <<n_rem, fresh, file, saved>>

\* kdtree_bulk_load: an empty array leaves the tree as it is, another
\* replaces the points stored
KdBulkLoad(points) ==
    /\ budget.load > 0
    /\ idx' = [idx EXCEPT !.block_tree = kdtree_bulk_load(@, KdPointData(points, n_ins + 1))]
    /\ live' = IF Len(points) = 0 THEN live
               ELSE SetToBag({ KdPointData(points, n_ins + 1)[i] : i \in 1..Len(points) })
    /\ n_ins' = n_ins + Len(points)
    /\ budget' = [budget EXCEPT !.load = @ - 1]
    /\ UNCHANGED <<n_rem, fresh, file, saved>>

NextKd ==
    \/ \E p \in KdPoints : KdInsert(p)
    \/ \E points \in KdArrays : KdBulkLoad(points)

SpecKd == InitKd /\ [][NextKd]_vars


(* ------------------------------------------------------------------ *)
(* What the properties are stated with                                *)
(* ------------------------------------------------------------------ *)
\* the bag of the entries of a sequence
SeqToBag(s) ==
    [x \in {s[i] : i \in DOMAIN s} |-> Cardinality({i \in DOMAIN s : s[i] = x})]

\* two closed rectangles share a point
ClosedIntersects(a, b) ==
    /\ a.min_x <= b.max_x /\ b.min_x <= a.max_x
    /\ a.min_y <= b.max_y /\ b.min_y <= a.max_y

\* the objects of the index whose MBR meets the closed rectangle R
LiveIn(R) ==
    [o \in {x \in DOMAIN live : ClosedIntersects(x.mbr, R)} |-> live[o]]

LiveCount == BagCardinality(live)

\* the object a result pointer refers to
Deref(d) == idx.disk.pool.pages[d[1]].objects[d[2]]

SquaredDistance(o, p) ==
    (o.centroid.x - p.x) * (o.centroid.x - p.x) + (o.centroid.y - p.y) * (o.centroid.y - p.y)

\* the positions of the non-empty pages whose extent meets or touches R
PagesTouching(R) ==
    { i \in 1..Len(idx.disk.pool.pages) :
        /\ idx.disk.pool.pages[i].header.object_count > 0
        /\ ClosedIntersects(idx.disk.pool.pages[i].header.extent, R) }

\* the list names exactly the pages of PagesTouching(R), each once
ListsPagesTouching(r, R) ==
    /\ r.err = "SI_OK"
    /\ {r.pages[i] : i \in DOMAIN r.pages} = PagesTouching(R)
    /\ Len(r.pages) = Cardinality(PagesTouching(R))

\* the track transitions of a list of track ids
Transitions(t) ==
    Cardinality({i \in 2..Len(t) : t[i] # t[i - 1] /\ t[i - 1] # 0})

\* no entry of another track lies between two entries of one track
SameTrackConsecutive(t) ==
    \A i, j \in DOMAIN t :
        (i < j /\ t[i] = t[j]) => \A m \in i..j : t[m] = t[i]

DistinctTracks(t) == Cardinality({t[i] : i \in DOMAIN t})

\* the MBR-union of the objects of the index
LiveUnion ==
    LET M == {o.mbr : o \in DOMAIN live} IN
    mbr_create(CHOOSE v \in {m.min_x : m \in M} : \A m \in M : v <= m.min_x,
               CHOOSE v \in {m.min_y : m \in M} : \A m \in M : v <= m.min_y,
               CHOOSE v \in {m.max_x : m \in M} : \A m \in M : v >= m.max_x,
               CHOOSE v \in {m.max_y : m \in M} : \A m \in M : v >= m.max_y)

(* ------------------------------------------------------------------ *)
(* Range queries                                                      *)
(* ------------------------------------------------------------------ *)
\* C1: after any sequence of inserts, removes, updates and builds, a range
\* query over a closed rectangle R returns exactly the objects of the index
\* whose MBR intersects R, each of them once and no other object.
QueryRangeExact ==
    \A R \in Regions : SeqToBag(spatial_index_query_range(idx, R)) = LiveIn(R)

\* after a remove, an update and a build one object is left: some rectangle
\* selects it and some rectangle does not
QueryRangeExactWitness ==
    /\ n_rem > 0 /\ budget.upd < MaxUpdates /\ budget.build < MaxBuilds
    /\ LiveCount = 1
    /\ \E R \in Regions : Len(spatial_index_query_range(idx, R)) = 1
    /\ \E R \in Regions : Len(spatial_index_query_range(idx, R)) = 0

(* ------------------------------------------------------------------ *)
(* Nearest neighbours                                                 *)
(* ------------------------------------------------------------------ *)
\* C2: right after a build of an index with n >= 1 objects, query_knn(p, k)
\* with k >= 1 returns min(k, n) objects of the index in non-decreasing
\* distance of their centroid to p, and no object left out is strictly
\* closer to p than the farthest one returned.
KnnAfterBuild ==
    (fresh /\ LiveCount >= 1) =>
        \A p \in QueryPoints, k \in KValues :
            LET r == spatial_index_query_knn(idx, p, k)
                objs == [i \in DOMAIN r.objects |-> Deref(r.objects[i])]
                rest == live (-) SeqToBag(objs)
            IN /\ r.err = "SI_OK"
               /\ Len(objs) = (IF k < LiveCount THEN k ELSE LiveCount)
               /\ SeqToBag(objs) \sqsubseteq live
               /\ \A i \in 1..(Len(objs) - 1) :
                     SquaredDistance(objs[i], p) <= SquaredDistance(objs[i + 1], p)
               /\ \A o \in DOMAIN rest :
                     SquaredDistance(o, p) >= SquaredDistance(objs[Len(objs)], p)

\* a built index of three objects or more answers a query for two of them
\* and leaves out an object that is strictly farther
KnnAfterBuildWitness ==
    /\ fresh /\ LiveCount >= 3
    /\ \E p \in QueryPoints :
          LET r == spatial_index_query_knn(idx, p, 2) IN
          /\ r.err = "SI_OK" /\ Len(r.objects) = 2
          /\ SquaredDistance(Deref(r.objects[1]), p) < SquaredDistance(Deref(r.objects[2]), p)
          /\ \E o \in DOMAIN live :
                SquaredDistance(o, p) > SquaredDistance(Deref(r.objects[2]), p)

\* C3: query_knn fails with not_built whenever no build has completed since
\* the last successful mutation; it never answers from a stale block tree.
KnnNotBuiltWhenStale ==
    (~fresh /\ n_ins > 0) =>
        \A p \in QueryPoints, k \in KValues :
            spatial_index_query_knn(idx, p, k).err = "SI_ERR_NOT_BUILT"

(* ------------------------------------------------------------------ *)
(* Adjacent pages                                                     *)
(* ------------------------------------------------------------------ *)
\* C4: right after a build, find_adjacent_pages(region) returns exactly the
\* non-empty pages whose extent intersects or touches the region, each of
\* them once, however many pages there are.
AdjacentPagesExact ==
    (fresh /\ LiveCount >= 1) =>
        \A R \in Regions :
            ListsPagesTouching(spatial_index_find_adjacent_pages(idx, R), R)

\* C5: after an insert or a remove that follows a build, the first
\* find_adjacent_pages answers from the current pages and extents.
AdjacentPagesCurrent ==
    (~fresh /\ budget.build < MaxBuilds /\ LiveCount >= 1) =>
        \A R \in Regions :
            ListsPagesTouching(spatial_index_find_adjacent_pages(idx, R), R)

\* C6: estimated_seeks of a returned list is the number of track transitions
\* of its track_ids in the returned order; it is 0 for an empty list and at
\* most count - 1 otherwise.
SeeksAreTransitions ==
    \A R \in Regions :
        LET l == urbis_find_adjacent_pages(idx, R) IN
        l.ok => /\ l.estimated_seeks = Transitions(l.track_ids)
                /\ l.count = Len(l.track_ids)
                /\ (l.count = 0 => l.estimated_seeks = 0)
                /\ (l.count > 0 => l.estimated_seeks <= l.count - 1)

\* a list of three pages or more that costs two seeks
SeeksAreTransitionsWitness ==
    \E R \in Regions :
        LET l == urbis_find_adjacent_pages(idx, R) IN
        l.ok /\ l.count >= 3 /\ l.estimated_seeks = 2

\* C7: in every returned list the pages of one track are consecutive, so
\* estimated_seeks is the number of distinct tracks of the list minus one.
SameTrackPagesConsecutive ==
    \A R \in Regions :
        LET l == urbis_find_adjacent_pages(idx, R) IN
        (l.ok /\ l.count > 0) =>
            /\ SameTrackConsecutive(l.track_ids)
            /\ l.estimated_seeks = DistinctTracks(l.track_ids) - 1

(* ------------------------------------------------------------------ *)
(* Counts and bounds                                                  *)
(* ------------------------------------------------------------------ *)
\* C8: the count of the index is the sum of the pages' object counts, and
\* it is the number of successful inserts minus the number of successful
\* removes, after any sequence of inserts, removes, updates and builds.
CountIsInsertsMinusRemoves ==
    /\ urbis_count(idx) = n_ins - n_rem
    /\ urbis_count(idx) = LiveCount
    /\ \A i \in 1..Len(idx.disk.pool.pages) :
          idx.disk.pool.pages[i].header.object_count = Len(idx.disk.pool.pages[i].objects)

\* objects remain after a remove and an update
CountIsInsertsMinusRemovesWitness ==
    n_rem > 0 /\ budget.upd < MaxUpdates /\ n_ins > n_rem /\ urbis_count(idx) > 0

\* C9: in every state reached by inserts, removes, updates, builds, saves
\* and loads, a range query over the bounds of the index returns exactly the
\* objects of the index.
QueryBoundsReturnsAll ==
    SeqToBag(spatial_index_query_range(idx, urbis_bounds(idx))) = live

\* C10: between operations the bounds of the index are the MBR-union of the
\* objects in it, and they are empty when it holds no object.
BoundsAreUnionOfObjects ==
    IF LiveCount = 0 THEN mbr_is_empty(urbis_bounds(idx))
    ELSE urbis_bounds(idx) = LiveUnion


(* ------------------------------------------------------------------ *)
(* Pages and tracks                                                   *)
(* ------------------------------------------------------------------ *)
RECURSIVE SeqSum(_)
SeqSum(s) == IF s = <<>> THEN 0 ELSE Head(s) + SeqSum(Tail(s))

\* the MBR-union of a non-empty set of rectangles
UnionOf(M) ==
    mbr_create(CHOOSE v \in {m.min_x : m \in M} : \A m \in M : v <= m.min_x,
               CHOOSE v \in {m.min_y : m \in M} : \A m \in M : v <= m.min_y,
               CHOOSE v \in {m.max_x : m \in M} : \A m \in M : v >= m.max_x,
               CHOOSE v \in {m.max_y : m \in M} : \A m \in M : v >= m.max_y)

PoolPages == idx.disk.pool.pages

PoolTracks == idx.disk.pool.tracks

\* C11: after every insert, remove or update, every page that holds n > 0
\* objects has the MBR-union of its objects' MBRs as extent and the mean of
\* its objects' centroids as centroid (kept scaled by CDen).
PageDerivedExact ==
    \A i \in 1..Len(PoolPages) :
        LET pg == PoolPages[i]
            n == pg.header.object_count
        IN n > 0 =>
            /\ n = Len(pg.objects)
            /\ pg.header.extent = UnionOf({pg.objects[j].mbr : j \in 1..n})
            /\ pg.header.centroid.x * n = CDen * SeqSum([j \in 1..n |-> pg.objects[j].centroid.x])
            /\ pg.header.centroid.y * n = CDen * SeqSum([j \in 1..n |-> pg.objects[j].centroid.y])

\* after a remove, a page is left with one object that is a point off the origin
PageDerivedExactWitness ==
    /\ n_rem > 0
    /\ \E i \in 1..Len(PoolPages) :
          /\ PoolPages[i].header.object_count = 1
          /\ PoolPages[i].objects[1].type = "point"
          /\ PoolPages[i].header.extent # mbr_create(0, 0, 0, 0)
          /\ PoolPages[i].header.centroid # point_create(0, 0)


\* the non-empty extents of the pages a track lists
ExtentsOnTrack(t) ==
    { PoolPages[t.pages[k]].header.extent : k \in 1..Len(t.pages) } \ { mbr_empty }

\* C12: after every insert or remove, the extent of every track is the
\* MBR-union of the extents of the pages it holds, and no track holds more
\* than PAGES_PER_TRACK page slots.
TrackDerivedExact ==
    \A t \in 1..Len(PoolTracks) :
        /\ Len(PoolTracks[t].pages) <= PAGES_PER_TRACK
        /\ IF ExtentsOnTrack(PoolTracks[t]) = {}
           THEN mbr_is_empty(PoolTracks[t].extent)
           ELSE PoolTracks[t].extent = UnionOf(ExtentsOnTrack(PoolTracks[t]))

\* how often the tracks list the page at position i, track by track
ListingsOf(i) ==
    [t \in 1..Len(PoolTracks) |->
        Cardinality({k \in 1..Len(PoolTracks[t].pages) : PoolTracks[t].pages[k] = i})]

\* C13: every page the allocator created is listed once in the page list of
\* one track, the track its track_id names.
PageListedOnce ==
    \A i \in 1..Len(PoolPages) :
        \E t \in 1..Len(PoolTracks) :
            /\ PoolTracks[t].track_id = PoolPages[i].header.track_id
            /\ ListingsOf(i)[t] = 1
            /\ \A u \in 1..Len(PoolTracks) : u # t => ListingsOf(i)[u] = 0


\* C14: in an index created with page_capacity = c, 1 <= c <=
\* MAX_OBJECTS_PER_PAGE, no page ever holds more than c objects, so more than
\* c objects in the index lie on more than one page.
PageCapacityRespected ==
    /\ \A i \in 1..Len(PoolPages) :
          PoolPages[i].header.object_count <= idx.config.page_capacity
    /\ page_pool_stats(idx.disk.pool) > idx.config.page_capacity => Len(PoolPages) > 1


(* ------------------------------------------------------------------ *)
(* Identifiers                                                        *)
(* ------------------------------------------------------------------ *)
\* the places <<page, slot>> of the objects of the index
Slots ==
    { <<i, j>> : i \in 1..Len(PoolPages), j \in 1..MAX_OBJECTS_PER_PAGE } \cap
    { q \in (1..Len(PoolPages)) \X (1..MAX_OBJECTS_PER_PAGE) :
        q[2] <= PoolPages[q[1]].header.object_count }

\* C15: no two objects of the index ever share an id, after any sequence
\* of inserts, updates, removes and loads.
ObjectIdsUnique ==
    \A q, r \in Slots : q # r => Deref(q).id # Deref(r).id

\* C16: every page of the pool has a positive page_id, no two pages of the
\* pool share a page_id, and every id in use lies below the counter the next
\* id is taken from, for pages and for tracks alike, after any sequence of
\* allocation, clear and load.
PageIdsPositiveUnique ==
    /\ \A i \in 1..Len(PoolPages) :
          /\ PoolPages[i].header.page_id > 0
          /\ PoolPages[i].header.page_id < idx.disk.pool.next_page_id
    /\ \A i, j \in 1..Len(PoolPages) :
          i # j => PoolPages[i].header.page_id # PoolPages[j].header.page_id
    /\ \A t \in 1..Len(PoolTracks) :
          /\ PoolTracks[t].track_id > 0
          /\ PoolTracks[t].track_id < idx.disk.pool.next_track_id
    /\ \A t, u \in 1..Len(PoolTracks) :
          t # u => PoolTracks[t].track_id # PoolTracks[u].track_id


(* ------------------------------------------------------------------ *)
(* The build flag                                                     *)
(* ------------------------------------------------------------------ *)
\* what the claim says of a call that returned err and turned a into b
BuiltAfterMutation(err, a, b) ==
    IF err = "SI_OK" THEN ~b.is_built ELSE b.is_built = a.is_built

\* every update call that explains the step leaves is_built as claimed;
\* where is_built is false before and after, every call does
UpdateStepAsClaimed(a, b) ==
    (a.is_built \/ b.is_built) =>
        \A id \in ObjectIds, obj \in InputObjects :
            \A r \in {spatial_index_update(a, id, obj)} :
                b = r.idx => BuiltAfterMutation(r.err, a, b)

\* C17: after a successful build is_built is true; after a successful
\* insert, remove, update or clear it is false; a query (find_adjacent_pages
\* is the one that writes to the index) and a failed insert, remove or update
\* leave it as it was.
IsBuiltFollowsCalls ==
    [][ /\ budget'.build < budget.build => idx'.is_built
        /\ budget'.ins < budget.ins =>
              BuiltAfterMutation(IF n_ins' > n_ins THEN "SI_OK" ELSE "SI_ERR_FULL", idx, idx')
        /\ budget'.rem < budget.rem =>
              BuiltAfterMutation(IF n_rem' > n_rem THEN "SI_OK" ELSE "SI_ERR_NOT_FOUND", idx, idx')
        /\ budget'.upd < budget.upd => UpdateStepAsClaimed(idx, idx')
        /\ budget'.clear < budget.clear => ~idx'.is_built
        /\ budget' = budget => idx'.is_built = idx.is_built ]_vars

\* a built index that holds objects, after a clear and after a remove of
\* an id the index does not hold
IsBuiltFollowsCallsWitness ==
    /\ idx.is_built
    /\ page_pool_stats(idx.disk.pool) > 0
    /\ budget.clear < MaxClears
    /\ budget.rem = 0
    /\ n_rem = 0


(* ------------------------------------------------------------------ *)
(* The block tree                                                     *)
(* ------------------------------------------------------------------ *)
\* the object ids of the nodes of a k-d tree
RECURSIVE NodeIds(_)
NodeIds(node) ==
    IF node = <<>> THEN <<>>
    ELSE <<node[1].object_id>> \o NodeIds(node[1].left) \o NodeIds(node[1].right)

\* the ids of the objects the pages hold, in page order and slot order
StoredIds ==
    [i \in 1..Len(CollectPoints(PoolPages, 1, 1)) |-> CollectPoints(PoolPages, 1, 1)[i].object_id]

\* the least d with n + 1 <= 2^d
CeilLog2Succ(n) == CHOOSE d \in 0..(n + 1) : Pow2(d) >= n + 1 /\ \A e \in 0..(d - 1) : Pow2(e) < n + 1

\* C18: after every build, also one that follows the removal of every
\* object, the block tree has one node per object of the index, its size is
\* the count of the index, and its depth is at most 2 * ceil(log2(n + 1)).
BlockTreeMatchesObjects ==
    fresh =>
        /\ idx.block_tree.size = urbis_count(idx)
        /\ SeqToBag(NodeIds(idx.block_tree.root)) = SeqToBag(StoredIds)
        /\ depth_recursive(idx.block_tree.root) <= 2 * CeilLog2Succ(urbis_count(idx))


(* ------------------------------------------------------------------ *)
(* The empty index                                                    *)
(* ------------------------------------------------------------------ *)
\* C19: on an index that holds no object, fresh or emptied by removes,
\* query_range, query_point, query_knn and find_adjacent_pages succeed with
\* no result, and build leaves the index without objects.
EmptyIndexQueriesSucceed ==
    urbis_count(idx) = 0 =>
        /\ \A R \in Regions : spatial_index_query_range(idx, R) = <<>>
        /\ \A p \in QueryPoints : spatial_index_query_point(idx, p) = <<>>
        /\ \A p \in QueryPoints, k \in KValues \ {0} :
              spatial_index_query_knn(idx, p, k) = [err |-> "SI_OK", objects |-> <<>>]
        /\ \A R \in CallRegions :
              /\ urbis_find_adjacent_pages(idx, R).ok
              /\ urbis_find_adjacent_pages(idx, R).count = 0
        /\ urbis_count(spatial_index_build(idx)) = 0


\* C20: in an index created with enable_quadtree = false,
\* find_adjacent_pages succeeds and returns an empty list in every state.
NoQuadtreeAdjacentEmpty ==
    ~idx.config.build_quadtree =>
        \A R \in CallRegions :
            /\ urbis_find_adjacent_pages(idx, R).ok
            /\ urbis_find_adjacent_pages(idx, R).count = 0


(* ------------------------------------------------------------------ *)
(* The page file                                                      *)
(* ------------------------------------------------------------------ *)
\* the index a client gets back when it saves r and loads what it saved
Reopened(r) == urbis_load(r.file)

\* C21: an index saved to a path and reopened from it reports the count and
\* the bounds it had when it was saved.
FileRoundTrip ==
    \A r \in {spatial_index_save(idx, file)} :
        r.err = "SI_OK" =>
            /\ Reopened(r).ok
            /\ urbis_count(Reopened(r).idx) = urbis_count(idx)
            /\ urbis_bounds(Reopened(r).idx) = urbis_bounds(idx)


(* ------------------------------------------------------------------ *)
(* Insert followed by remove                                          *)
(* ------------------------------------------------------------------ *)
\* a remove of the id that the insert r gave out brings count and every
\* query_range result back to what they are in a
RemoveUndoes(a, r) ==
    \A d \in {spatial_index_remove(r.idx, r.id)} :
        /\ d.err = "SI_OK"
        /\ urbis_count(d.idx) = urbis_count(a)
        /\ \A R \in Regions :
              SeqToBag(spatial_index_query_range(d.idx, R)) = SeqToBag(spatial_index_query_range(a, R))

\* C22: inserting an object and then removing it leaves count unchanged and,
\* for every rectangle R, leaves the result set of query_range(R) as it was
\* before the insert.
InsertThenRemove ==
    \A obj \in InputObjects :
        \A r \in spatial_index_insert_outcomes(idx, obj) :
            r.err = "SI_OK" => RemoveUndoes(idx, r)


(* ------------------------------------------------------------------ *)
(* Page serialization                                                 *)
(* ------------------------------------------------------------------ *)
\* the page that page_deserialize makes of target from the buffer of pg has
\* the header of pg and, object by object, its id, type, centroid and MBR
ReadsBackAs(target, pg) ==
    \A d \in {page_deserialize(target, page_serialize(pg))} :
        /\ d.err = "PAGE_OK"
        /\ d.page.header = pg.header
        /\ \A j \in 1..pg.header.object_count :
              /\ d.page.objects[j].id = pg.objects[j].id
              /\ d.page.objects[j].type = pg.objects[j].type
              /\ d.page.objects[j].centroid = pg.objects[j].centroid
              /\ d.page.objects[j].mbr = pg.objects[j].mbr

RejectedAsClaimed(h, r, a, b) ==
    /\ h.magic # DM_MAGIC => r.err = "DM_ERR_CORRUPT"
    /\ (h.magic = DM_MAGIC /\ h.version > DM_VERSION) => r.err = "DM_ERR_VERSION"
    /\ r.err \in {"DM_ERR_CORRUPT", "DM_ERR_VERSION"} =>
          /\ ~b.is_open
          /\ Len(b.pool.pages) = Len(a.pool.pages)
          /\ b.pool.next_page_id = a.pool.next_page_id

\* C24: disk_manager_open rejects a file whose magic is not DM_MAGIC with
\* corrupt and a file whose version is greater than DM_VERSION with version;
\* after such a failure the manager is not open and the pool has no page
\* more than before.
OpenRejectsForeign ==
    [][ (budget'.open < budget.open /\ file' # <<>>) =>
            \A r \in {disk_manager_open(idx.disk, file)} :
                RejectedAsClaimed(file'[1].header, r, idx.disk, idx'.disk) ]_vars

\* a manager that holds pages and has read a foreign header in an open
OpenRejectsForeignWitness ==
    /\ budget.open = 0
    /\ file # <<>>
    /\ Len(file[1].slots) > 0
    /\ idx.disk.header.magic = DM_MAGIC + 1
    /\ Len(idx.disk.pool.pages) > 0

\* C25: the page cache never holds more entries than its capacity: after
\* every page_cache_get, pin, unpin and evict call that has returned, count
\* is the number of entries of the list and is at most capacity.
CacheWithinCapacity ==
    idx.disk.cache.pc = "idle" =>
        /\ idx.disk.cache.count = Len(idx.disk.cache.lru)
        /\ idx.disk.cache.count <= idx.disk.cache.capacity

\* a full cache of capacity CacheCapBound after every get of the client was
\* a miss of another page, so that gets have evicted
CacheWithinCapacityWitness ==
    /\ idx.disk.cache.pc = "idle"
    /\ idx.disk.cache.capacity = CacheCapBound
    /\ idx.disk.cache.count = CacheCapBound
    /\ budget.get = 0
    /\ budget.evict = CacheEvicts
    /\ CacheGets > CacheCapBound
    /\ { idx.disk.cache.lru[q].page_id : q \in 1..Len(idx.disk.cache.lru) }
         = (CacheGets - CacheCapBound + 1)..CacheGets
    /\ \A q \in 1..Len(idx.disk.cache.lru) : idx.disk.cache.lru[q].access_count = 1

\* the list of a cache has an entry for the page
HasEntry(cache, page_id) == \E q \in 1..Len(cache.lru) : cache.lru[q].page_id = page_id

\* the get of page_id that took cache a to cache b was a hit as C26 has it
HitAsClaimed(a, b, page_id) ==
    /\ b.pc = "idle"
    /\ b.count = a.count
    /\ Len(b.lru) = Len(a.lru)
    /\ \A q, r \in 1..Len(b.lru) : b.lru[q].page_id = b.lru[r].page_id => q = r
    /\ b.lru[1].page_id = page_id
    /\ \E q \in 1..Len(a.lru) :
          /\ a.lru[q].page_id = page_id
          /\ b.lru[1].access_count = a.lru[q].access_count + 1

\* C26: a page_cache_get of a page id that has an entry is a hit whatever
\* the gets before it were: it adds no entry (count is unchanged and no
\* page id has two entries), it increments the access counter of the entry
\* and it makes the entry the head of the list.
GetOfCachedPageHits ==
    [][\A page_id \in 1..(CachePages + 1) :
          (CacheGet(page_id) /\ HasEntry(idx.disk.cache, page_id))
             => HitAsClaimed(idx.disk.cache, idx'.disk.cache, page_id)]_vars

\* C27: a page_cache_get that misses with the cache at capacity terminates,
\* also when the page of the tail is pinned: inside the eviction it calls,
\* either an iteration evicts an entry or the loop ends and the get returns.
EvictionOfGetTerminates ==
    (idx.disk.cache.pc = "evict" /\ idx.disk.cache.pending # 0)
        => ENABLED (EvictStep \/ EvictReturn)

\* the step from disk manager a to b cleared the dirty flag of the page at
\* position pg of the pool
DirtyCleared(a, b, pg) ==
    /\ pg <= Len(a.pool.pages)
    /\ pg <= Len(b.pool.pages)
    /\ a.pool.pages[pg].header.page_id = b.pool.pages[pg].header.page_id
    /\ "DIRTY" \in a.pool.pages[pg].header.flags
    /\ "DIRTY" \notin b.pool.pages[pg].header.flags

\* the slot of the page in the data file holds the page as serialized
WrittenTo(f, page) ==
    /\ f # <<>>
    /\ page.header.page_id \in 1..Len(f[1].slots)
    /\ f[1].slots[page.header.page_id] = page_serialize(page)

\* C28: the dirty flag of a page is cleared only by an operation that
\* writes the page to the data file: after a step that cleared the flag,
\* page_cache_flush included, the data file holds the page as it was.  Steps
\* left aside: a sync in which the write of a page fails, and
\* disk_manager_create, which truncates the file after the sync of its close.
DirtyClearedOnlyByWrite ==
    [][(/\ ~StoreCreate
        /\ \/ \E header_fails \in BOOLEAN : StoreSync({}, header_fails)
           \/ ~\E failing \in FailingWrites, header_fails \in BOOLEAN :
                  StoreSync(failing, header_fails))
          => \A pg \in 1..(2 * StoreAllocs) :
                DirtyCleared(idx.disk, idx'.disk, pg)
                   => WrittenTo(file', idx.disk.pool.pages[pg])]_vars

\* a write of the sync of disk manager dm fails: that of the header, or
\* that of a dirty page
SyncWriteFails(dm, failing, header_fails) ==
    \/ header_fails
    \/ \E pg \in failing : pg <= Len(dm.pool.pages) /\ "DIRTY" \in dm.pool.pages[pg].header.flags

\* C29: when the write of a dirty page or of the header fails during
\* disk_manager_sync, the sync returns an io error, not success, and a page
\* whose write failed keeps its dirty flag.
SyncReportsFailedWrite ==
    [][\A failing \in FailingWrites, header_fails \in BOOLEAN :
          (/\ StoreSync(failing, header_fails)
           /\ idx.disk.is_open
           /\ SyncWriteFails(idx.disk, failing, header_fails))
             => /\ disk_manager_sync_io(idx.disk, file, failing, header_fails).err = "DM_ERR_IO"
                /\ \A pg \in failing :
                      "DIRTY" \in idx.disk.pool.pages[pg].header.flags
                         => "DIRTY" \in idx'.disk.pool.pages[pg].header.flags]_vars

\* the bag of the ids and bounds of a sequence of quadtree items
QtItemBag(items) ==
    SeqToBag([i \in 1..Len(items) |-> [id |-> items[i].id, bounds |-> items[i].bounds]])

\* C30: after any sequence of successful quadtree inserts and removes,
\* every item inserted and not removed is stored in the tree: the items that
\* quadtree_get_all returns are the items inserted and not removed, once
\* each, and total_items is their number.
QuadtreeKeepsItems ==
    /\ QtItemBag(quadtree_get_all(idx.page_tree[1])) = live
    /\ idx.page_tree[1].total_items = Len(quadtree_get_all(idx.page_tree[1]))

\* the items inserted and not removed whose bounds meet the range, which
\* is given unscaled
QuadLiveIn(range) ==
    SetToBag({ x \in BagToSet(live) : ClosedIntersects(x.bounds, ScaleMBR(range, QScale)) })

\* C31: quadtree_query_range(R) returns exactly the items inserted and not
\* removed whose bounds intersect R, each once, after any sequence of
\* successful inserts, items that only partly overlap the root included,
\* and removes.
QuadtreeQueryExact ==
    \A range \in QuadRanges :
        QtItemBag(quadtree_query_range(idx.page_tree[1], ScaleMBR(range, QScale)))
            = QuadLiveIn(range)

\* the points a query is asked for: the grid and one point off it
KdQueries == KdPoints \cup { point_create(GridMax + 1, 0) }

\* kdtree_nearest gave a stored point, with its id and payload, that no
\* stored point is nearer to the query than
NearestIsMinimal(r, query) ==
    /\ \E x \in BagToSet(live) :
          x.point = r.best /\ x.object_id = r.best_id /\ x.data = r.best_data
    /\ \A y \in BagToSet(live) :
          point_distance_sq(query, r.best) <= point_distance_sq(query, y.point)

\* C32: on a non-empty k-d tree built by any mix of kdtree_insert and
\* kdtree_bulk_load, points with equal coordinates included, kdtree_nearest
\* returns a stored point at minimal Euclidean distance from the query,
\* with that point's id and data.
NearestIsNearest ==
    idx.block_tree.root # <<>> =>
        \A query \in KdQueries :
            NearestIsMinimal(kdtree_nearest(idx.block_tree, query), query)

\* a tree of a bulk load and two inserts after it that stores one point
\* twice and two more points with the same x
NearestIsNearestWitness ==
    /\ budget.load = 0 /\ budget.insert = 0
    /\ idx.block_tree.size = KdLoadLen + KdInserts
    /\ idx.block_tree.root[1].left # <<>> /\ idx.block_tree.root[1].right # <<>>
    /\ \E x, y \in BagToSet(live) : x.object_id # y.object_id /\ x.point = y.point
    /\ \E x, y \in BagToSet(live) : x.point # y.point /\ x.point.x = y.point.x
    /\ NearestIsMinimal(kdtree_nearest(idx.block_tree, point_create(0, 0)), point_create(0, 0))

\* the ranges a query is asked for: the rectangles of the grid, one off the
\* grid and an empty one
KdRanges ==
    { mbr_create(x1, y1, x2, y2) : x1 \in 0..GridMax, y1 \in 0..GridMax,
                                   x2 \in 0..GridMax, y2 \in 0..GridMax }
    \cup { mbr_create(GridMax + 1, 0, GridMax + 2, GridMax) }

\* the points of a subtree, as stored
RECURSIVE KdSubtree(_)
KdSubtree(node) ==
    IF node = <<>> THEN <<>>
    ELSE <<[point |-> node[1].point, object_id |-> node[1].object_id, data |-> node[1].data]>>
         \o KdSubtree(node[1].left) \o KdSubtree(node[1].right)

\* every node of the subtree has the MBR and the count of its subtree
RECURSIVE KdNodesExact(_)
KdNodesExact(node) ==
    node = <<>> \/
       /\ node[1].subtree_size = Len(KdSubtree(node))
       /\ node[1].bounds = ExpandPoints(mbr_empty, KdSubtree(node))
       /\ KdNodesExact(node[1].left)
       /\ KdNodesExact(node[1].right)

\* the stored points in the closed rectangle
KdLiveIn(range) ==
    SetToBag({ x \in BagToSet(live) :
                 /\ range.min_x <= x.point.x /\ x.point.x <= range.max_x
                 /\ range.min_y <= x.point.y /\ x.point.y <= range.max_y })

\* the bag of the entries of a query result
KdResultBag(result) ==
    SeqToBag([i \in 1..Len(result) |->
                [point |-> result[i].point, object_id |-> result[i].id, data |-> result[i].data]])

\* C33: on a k-d tree built by any mix of kdtree_insert and
\* kdtree_bulk_load, kdtree_range_query returns exactly the stored points in
\* the closed rectangle, each once, and every node holds the exact MBR and
\* count of its subtree.
RangeQueryExact ==
    /\ KdNodesExact(idx.block_tree.root)
    /\ \A range \in KdRanges :
          KdResultBag(kdtree_range_query(idx.block_tree, range)) = KdLiveIn(range)

\* a tree of a bulk load and two inserts after it, asked for a rectangle
\* that holds some of its points and not others
RangeQueryExactWitness ==
    /\ budget.load = 0 /\ budget.insert = 0
    /\ idx.block_tree.size = KdLoadLen + KdInserts
    /\ Len(kdtree_range_query(idx.block_tree, mbr_create(0, 0, 1, 1))) = 2
    /\ KdResultBag(kdtree_range_query(idx.block_tree, mbr_create(0, 0, 1, 1)))
          = KdLiveIn(mbr_create(0, 0, 1, 1))

\* ceil(n / m)
CeilDiv(n, m) == (n + m - 1) \div m

\* the MBRs and the sizes of the subtrees of a tree
RECURSIVE KdSubtreeBlocks(_)
KdSubtreeBlocks(node) ==
    IF node = <<>> THEN {}
    ELSE { [bounds |-> node[1].bounds, size |-> Len(KdSubtree(node))] }
         \cup KdSubtreeBlocks(node[1].left) \cup KdSubtreeBlocks(node[1].right)

\* C34: kdtree_partition(tree, m) with m >= 1 on a tree of n points,
\* whatever its shape, emits at least ceil(n / m) blocks, and each block is
\* the MBR of a subtree that holds at most m points.
PartitionCoversCount ==
    \A m \in 1..KdBlockMax :
        /\ Len(kdtree_partition(idx.block_tree, m)) >= CeilDiv(idx.block_tree.size, m)
        /\ \A i \in 1..Len(kdtree_partition(idx.block_tree, m)) :
              \E b \in KdSubtreeBlocks(idx.block_tree.root) :
                 b.bounds = kdtree_partition(idx.block_tree, m)[i] /\ b.size <= m

\* C37: every point stored in the k-d tree lies inside the bounds of at
\* least one block that kdtree_partition emits, for every
\* max_points_per_block >= 1.
PartitionCoversPoints ==
    \A m \in 1..KdBlockMax :
        \A x \in BagToSet(live) :
            \E i \in 1..Len(kdtree_partition(idx.block_tree, m)) :
                mbr_contains_point(kdtree_partition(idx.block_tree, m)[i], x.point)

\* the positions of the non-empty pages of a pool
NonEmptyPages(pages) == { i \in 1..Len(pages) : pages[i].header.object_count > 0 }

\* the non-empty pages whose centroid is nearest to the centroid of obj
NearestPages(pages, obj) ==
    { i \in NonEmptyPages(pages) :
        \A j \in NonEmptyPages(pages) :
            point_distance_sq(pages[i].header.centroid, ScalePoint(obj.centroid, CDen))
              <= point_distance_sq(pages[j].header.centroid, ScalePoint(obj.centroid, CDen)) }

\* the page at position i holds an object with the id
HoldsObject(pages, i, id) == \E j \in 1..Len(pages[i].objects) : pages[i].objects[j].id = id

\* the insert of obj that took pool pages a to b placed it as C35 has it:
\* with no page allocated and a non-empty page there, the object is in a
\* nearest page that was not full; a page is allocated only with no
\* non-empty page there or with the nearest one full
PlacedAsClaimed(a, b, obj) ==
    IF Len(b) = Len(a)
    THEN \/ NonEmptyPages(a) = {}
         \/ \E i \in NearestPages(a, obj) : ~page_is_full(a[i]) /\ HoldsObject(b, i, obj.id)
    ELSE /\ HoldsObject(b, Len(b), obj.id)
         /\ \/ NonEmptyPages(a) = {}
            \/ \E i \in NearestPages(a, obj) : page_is_full(a[i])

\* C35: spatial_index_insert places the object in the non-empty page whose
\* centroid is nearest to the object's centroid whenever that page is not
\* full, and allocates a new page only when the index has no non-empty page
\* or that nearest page is full (of several pages at the same nearest
\* distance, any counts as the nearest).
InsertGoesToNearestPage ==
    [][(budget'.ins < budget.ins /\ n_ins' > n_ins)
          => \A obj \in BagToSet(live' (-) live) :
                PlacedAsClaimed(idx.disk.pool.pages, idx'.disk.pool.pages, obj)]_vars

\* an insert went to an existing page although another non-empty page was
\* there, and a later one allocated a page because the nearest was full
InsertGoesToNearestPageWitness ==
    /\ Cardinality(NonEmptyPages(PoolPages)) >= 2
    /\ \E i \in NonEmptyPages(PoolPages) : page_is_full(PoolPages[i])
    /\ \E i \in NonEmptyPages(PoolPages) : ~page_is_full(PoolPages[i])
    /\ n_ins > MAX_OBJECTS_PER_PAGE

\* the nodes of the allocation tree, as [point, object_id, data]
AllocationNodes == KdSubtree(idx.disk.allocation_tree.root)

\* C36: after any sequence of facade operations (insert, remove, update,
\* build, clear) every page the allocation k-d tree refers to is a live page
\* of the pool, and the tree holds exactly the non-empty pages of the pool,
\* each once, keyed by its current centroid: no insert can select a page
\* that has been freed.
AllocationTreeLive ==
    /\ \A k \in 1..Len(AllocationNodes) : AllocationNodes[k].data \in 1..Len(PoolPages)
    /\ Len(AllocationNodes) = Cardinality(NonEmptyPages(PoolPages))
    /\ { [point |-> AllocationNodes[k].point, data |-> AllocationNodes[k].data] :
            k \in 1..Len(AllocationNodes) }
         = { [point |-> PoolPages[i].header.centroid, data |-> i] :
               i \in NonEmptyPages(PoolPages) }

\* the objects of the pages of a pool from position i on, page after page
RECURSIVE PoolObjects(_, _)
PoolObjects(pages, i) ==
    IF i > Len(pages) THEN <<>>
    ELSE pages[i].objects \o PoolObjects(pages, i + 1)

\* id, centroid and MBR of every object of an index, as a bag
IndexObjectBag(ix) ==
    SeqToBag([k \in 1..Len(PoolObjects(ix.disk.pool.pages, 1)) |->
                [id |-> PoolObjects(ix.disk.pool.pages, 1)[k].id,
                 centroid |-> PoolObjects(ix.disk.pool.pages, 1)[k].centroid,
                 mbr |-> PoolObjects(ix.disk.pool.pages, 1)[k].mbr]])

\* C38: in every state in which save is called, also after an earlier save
\* or sync has cleared the dirty flags, urbis_save(path) followed by
\* urbis_load(path) yields an index with the same object count and the same
\* id, centroid and MBR for every object.
SaveLoadKeepsObjects ==
    \A r \in {spatial_index_save(idx, file)} :
        r.err = "SI_OK" =>
            /\ Reopened(r).ok
            /\ urbis_count(Reopened(r).idx) = urbis_count(idx)
            /\ IndexObjectBag(Reopened(r).idx) = IndexObjectBag(idx)

\* the page records of the file
FileRecords ==
    IF file = <<>> THEN {}
    ELSE { file[1].slots[i] : i \in 1..Len(file[1].slots) }

\* C39: after disk_manager_open returns, every page in the pool has
\* object_count <= MAX_OBJECTS_PER_PAGE: a page record whose object_count
\* exceeds the maximum is rejected as corrupt and is not left in the pool
\* with its corrupt header, and a page_deserialize that fails leaves the
\* target page unchanged.
CorruptPageRejected ==
    /\ \A i \in 1..Len(PoolPages) :
          PoolPages[i].header.object_count <= MAX_OBJECTS_PER_PAGE
    /\ \A i \in 1..Len(PoolPages) : \A buffer \in FileRecords :
          page_deserialize(PoolPages[i], buffer).err # "PAGE_OK"
              => page_deserialize(PoolPages[i], buffer).page = PoolPages[i]

\* the track every page of the pool is assigned to
PageTracks(ix) ==
    [i \in 1..Len(ix.disk.pool.pages) |-> ix.disk.pool.pages[i].header.track_id]

\* what a client can observe of the layout of an index
BuildObservable(ix) ==
    [objects |-> IndexObjectBag(ix),
     page_count |-> Len(ix.disk.pool.pages),
     page_tracks |-> PageTracks(ix),
     block_count |-> Len(ix.blocks),
     track_count |-> Len(ix.disk.pool.tracks)]

\* C40: build is idempotent on observable state: build called twice in
\* succession with no mutation in between leaves the same object set, page
\* count, page-to-track assignment, block count and track count as build
\* called once.
BuildIdempotent ==
    \A once \in {spatial_index_build(idx)} :
        BuildObservable(spatial_index_build(once)) = BuildObservable(once)

====
